---- MODULE Spec2Model ----
(***************************************************************************)
(* A model of the LaTeX-to-JSON converter of latex2json.py                 *)
(* (class LatexToJsonConverter).  Texts are TLA+ strings; positions are    *)
(* 1-based, so a Python index p is the position p + 1 here, and a Python   *)
(* slice s[a:b] is SubSeq(s, a + 1, b).                                    *)
(***************************************************************************)
EXTENDS Integers, Sequences, FiniteSets, TLC

\* Op applied to the value of x: x is computed first, once, and the parameter
\* of Op names its value
With(x, Op(_)) == CASE x = x -> Op(x)

(***************************************************************************)
(* Python str primitives                                                   *)
(***************************************************************************)
\* s[i] as a one-character string ("" when i is out of range)
Ch(s, i) == IF i >= 1 /\ i <= Len(s) THEN SubSeq(s, i, i) ELSE ""

\* s.startswith(lit, i-1)
startswith(s, i, lit) ==
    /\ i >= 1
    /\ i + Len(lit) - 1 <= Len(s)
    /\ SubSeq(s, i, i + Len(lit) - 1) = lit

\* the least and the greatest element of a non-empty set of numbers
Least(S) == CHOOSE k \in S : \A l \in S : k <= l

Greatest(S) == CHOOSE k \in S : \A l \in S : l <= k

\* s.find(lit, from-1) + 1: the least position >= from where lit occurs, 0 when none
find(s, lit, from) ==
    LET hits == {k \in from..(Len(s) - Len(lit) + 1) : SubSeq(s, k, k + Len(lit) - 1) = lit}
    IN  IF hits = {} THEN 0 ELSE Least(hits)

\* the first of two search results (0 is "not found")
first_of(a, b) == IF a = 0 THEN b ELSE IF b = 0 THEN a ELSE IF a < b THEN a ELSE b

\* s[from-1:]
Tail_from(s, from) == IF from > Len(s) THEN "" ELSE SubSeq(s, from, Len(s))

\* s.replace(old, new): leftmost non-overlapping occurrences, the result is not rescanned
RECURSIVE replace(_, _, _)
replace(s, old, new) ==
    With(find(s, old, 1), LAMBDA i :
        IF i = 0 THEN s
        ELSE SubSeq(s, 1, i - 1) \o new \o replace(Tail_from(s, i + Len(old)), old, new))

\* the characters of regex \s and of str.strip()
Whitespace == {" ", "\t", "\n", "\r", "\f"}

\* regex [a-zA-Z@]
CmdLetters ==
    {"a","b","c","d","e","f","g","h","i","j","k","l","m","n","o","p","q","r","s","t","u","v","w","x","y","z",
     "A","B","C","D","E","F","G","H","I","J","K","L","M","N","O","P","Q","R","S","T","U","V","W","X","Y","Z","@"}

Digits == {"0","1","2","3","4","5","6","7","8","9"}

\* regex [a-zA-Z0-9_] (also \w on the ASCII range)
WordChars == (CmdLetters \ {"@"}) \cup Digits \cup {"_"}

\* the length of the longest run of characters of set cs that starts at position i
run_len(s, i, cs) ==
    IF i > Len(s) THEN 0
    ELSE Least({k \in i..(Len(s) + 1) : Ch(s, k) \notin cs}) - i

lstrip(s) == Tail_from(s, 1 + run_len(s, 1, Whitespace))

rstrip(s) ==
    LET kept == {k \in 1..Len(s) : Ch(s, k) \notin Whitespace}
    IN  IF kept = {} THEN "" ELSE SubSeq(s, 1, Greatest(kept))

\* s.strip()
strip(s) == rstrip(lstrip(s))

\* s.split(sep) for a non-empty separator
RECURSIVE split(_, _)
split(s, sep) ==
    With(find(s, sep, 1), LAMBDA i :
        IF i = 0 THEN <<s>>
        ELSE <<SubSeq(s, 1, i - 1)>> \o split(Tail_from(s, i + Len(sep)), sep))

\* "".join(parts)
RECURSIVE join(_)
join(parts) == IF parts = <<>> THEN "" ELSE Head(parts) \o join(Tail(parts))

(***************************************************************************)
(* Text cleaner                                                            *)
(***************************************************************************)
\* the replacements of lines 99-104, in the order they are applied
CleanReplacements ==
    << <<"~", " ">>, <<"\\'e", "é">>, <<"\\'a", "á">>,
       <<"\\%", "%">>, <<"\\&", "&">>, <<"\\#", "#">>,
       <<"\\$", "$">>, <<"\\_", "_">>,
       <<"\\{", "{">>, <<"\\}", "}">>,
       <<"\\\\", "\n">>, <<"\\newline", "\n">> >>

\* text.replace(old, new) for the pairs lo..hi, one after the other: the first
\* half of the pairs, then the second half on the result (the empty text has
\* nothing to replace)
RECURSIVE replace_each(_, _, _, _)
replace_each(text, pairs, lo, hi) ==
    IF text = "" THEN ""
    ELSE IF lo = hi THEN replace(text, pairs[lo][1], pairs[lo][2])
    ELSE replace_each(replace_each(text, pairs, lo, (lo + hi) \div 2), pairs, (lo + hi) \div 2 + 1, hi)

_clean_latex_text_segment(text) == replace_each(text, CleanReplacements, 1, Len(CleanReplacements))

(***************************************************************************)
(* Macro expander.  The macro table is a Python dict: a sequence of        *)
(* [cmd, replacement] entries in insertion order.                          *)
(***************************************************************************)
\* depth > 10 stops the expansion
MAX_DEPTH == 10

\* re.sub(r"\\" + cmd + r"(?!\w)", repl, text)
RECURSIVE sub_macro(_, _, _, _)
sub_macro(text, from, cmd, repl) ==
    With(find(text, "\\" \o cmd, from), LAMBDA i :
        IF i = 0 THEN Tail_from(text, from)
        ELSE IF Ch(text, i + Len(cmd) + 1) \in WordChars
        THEN SubSeq(text, from, i) \o sub_macro(text, i + 1, cmd, repl)
        ELSE SubSeq(text, from, i - 1) \o repl \o sub_macro(text, i + Len(cmd) + 1, cmd, repl))

\* one pass of the for loop over self.macros
RECURSIVE expand_pass(_, _)
expand_pass(text, macros) ==
    IF macros = <<>> THEN text
    ELSE With(sub_macro(text, 1, Head(macros).cmd, Head(macros).replacement), LAMBDA t :
            expand_pass(t, Tail(macros)))

\* DepthExceeded with the test one call late
DepthExceededLate(d) == d > MAX_DEPTH + 1

\* line 123: if depth > 10
DepthExceeded(d) == d > MAX_DEPTH

RECURSIVE _expand_macros(_, _, _)
_expand_macros(text, depth, macros) ==
    IF DepthExceeded(depth) THEN text
    ELSE With(expand_pass(text, macros), LAMBDA t :
            IF t # text THEN _expand_macros(t, depth + 1, macros) ELSE t)

(***************************************************************************)
(* Built-in colour palette                                                 *)
(***************************************************************************)
LATEX_COLOR_TO_HEX ==
    [black |-> "#000000", white |-> "#FFFFFF", red |-> "#FF0000",
     green |-> "#00FF00", blue |-> "#0000FF", cyan |-> "#00FFFF",
     magenta |-> "#FF00FF", yellow |-> "#FFFF00", gray |-> "#808080",
     AliceBlue |-> "#F0F8FF", AntiqueWhite |-> "#FAEBD7", Aqua |-> "#00FFFF",
     Aquamarine |-> "#7FFFD4", Azure |-> "#F0FFFF", Beige |-> "#F5F5DC",
     Bisque |-> "#FFE4C4", BlanchedAlmond |-> "#FFEBCD", BlueViolet |-> "#8A2BE2",
     Brown |-> "#A52A2A", BurlyWood |-> "#DEB887", CadetBlue |-> "#5F9EA0",
     Chartreuse |-> "#7FFF00", Chocolate |-> "#D2691E", Coral |-> "#FF7F50",
     CornflowerBlue |-> "#6495ED", Cornsilk |-> "#FFF8DC", Crimson |-> "#DC143C",
     DarkBlue |-> "#00008B", DarkCyan |-> "#008B8B", DarkGoldenRod |-> "#B8860B",
     DarkGray |-> "#A9A9A9", DarkGrey |-> "#A9A9A9", DarkGreen |-> "#006400",
     Green |-> "#008000", Blue |-> "#0000FF"]

(***************************************************************************)
(* Inline markup parser: COMPILED_INLINE_PATTERN                           *)
(* A match is a record: kind, start, end (the position after the match),   *)
(* whole (group 0), and the groups the kind has.                           *)
(***************************************************************************)
NoMatch == [kind |-> "none"]

\* \\name\{(.*?)\} at position i: the content runs to the first closing brace
BraceCmdAt(s, i, name, kind) ==
    With(find(s, "}", i + Len(name) + 2), LAMBDA j :
        IF startswith(s, i, "\\" \o name \o "{") /\ j # 0
        THEN [kind |-> kind, start |-> i, end |-> j + 1, whole |-> SubSeq(s, i, j),
              content |-> SubSeq(s, i + Len(name) + 2, j - 1)]
        ELSE NoMatch)

\* \\textcolor\{([a-zA-Z0-9_]+)\}\{(.*?)\}
TextcolorAt(s, i) ==
    With(i + Len("\\textcolor{"), LAMBDA p :
    With(run_len(s, p, WordChars), LAMBDA n :
    With(find(s, "}", p + n + 2), LAMBDA j :
        IF startswith(s, i, "\\textcolor{") /\ n >= 1 /\ startswith(s, p + n, "}{") /\ j # 0
        THEN [kind |-> "textcolor", start |-> i, end |-> j + 1, whole |-> SubSeq(s, i, j),
              color |-> SubSeq(s, p, p + n - 1), content |-> SubSeq(s, p + n + 2, j - 1)]
        ELSE NoMatch)))

\* \{\s*\\color\{([a-zA-Z0-9_]+)\}(.*?)\}
ColorGroupAt(s, i) ==
    With(i + 1 + run_len(s, i + 1, Whitespace), LAMBDA q :
    With(q + Len("\\color{"), LAMBDA p :
    With(run_len(s, p, WordChars), LAMBDA n :
    With(find(s, "}", p + n + 1), LAMBDA j :
        IF startswith(s, i, "{") /\ startswith(s, q, "\\color{") /\ n >= 1
           /\ startswith(s, p + n, "}") /\ j # 0
        THEN [kind |-> "colorgroup", start |-> i, end |-> j + 1, whole |-> SubSeq(s, i, j),
              color |-> SubSeq(s, p, p + n - 1), content |-> SubSeq(s, p + n + 1, j - 1)]
        ELSE NoMatch))))

\* \\href\{[^}]*\}\{(.*?)\}
HrefAt(s, i) ==
    With(find(s, "}", i + Len("\\href{")), LAMBDA j1 :
    With(find(s, "}", j1 + 2), LAMBDA j2 :
        IF startswith(s, i, "\\href{") /\ j1 # 0 /\ startswith(s, j1 + 1, "{") /\ j2 # 0
        THEN [kind |-> "href", start |-> i, end |-> j2 + 1, whole |-> SubSeq(s, i, j2),
              content |-> SubSeq(s, j1 + 2, j2 - 1)]
        ELSE NoMatch))

\* \\name(?:\[(.*?)\])?\{(.*?)\} for one name of the alternation: first with
\* the bracket group (shortest prenote that is followed by "]{" and a closing
\* brace), then without it
OptBraceCmdAt(s, i, name, kind) ==
    With(i + Len(name) + 1, LAMBDA p :
    With(find(s, "]{", p + 1), LAMBDA k :
    With(find(s, "}", k + 2), LAMBDA jb :
    With(find(s, "}", p + 1), LAMBDA j :
        IF ~startswith(s, i, "\\" \o name) THEN NoMatch
        ELSE IF Ch(s, p) = "[" /\ k # 0 /\ jb # 0
        THEN [kind |-> kind, start |-> i, end |-> jb + 1, whole |-> SubSeq(s, i, jb),
              name |-> name, has_opt |-> TRUE, opt |-> SubSeq(s, p + 1, k - 1),
              content |-> SubSeq(s, k + 2, jb - 1)]
        ELSE IF Ch(s, p) = "{" /\ j # 0
        THEN [kind |-> kind, start |-> i, end |-> j + 1, whole |-> SubSeq(s, i, j),
              name |-> name, has_opt |-> FALSE, opt |-> "",
              content |-> SubSeq(s, p + 1, j - 1)]
        ELSE NoMatch))))

\* the first alternative that matches, in the order of the alternation
FirstMatch(alts) ==
    LET hits == {k \in 1..Len(alts) : alts[k].kind # "none"}
    IN  IF hits = {} THEN NoMatch ELSE alts[Least(hits)]

\* the first of the names (in the order of the alternation) that matches at i
FirstNameAt(s, i, names, kind) ==
    FirstMatch([k \in 1..Len(names) |-> OptBraceCmdAt(s, i, names[k], kind)])

\* (?!\s*\{) fails at position p
FollowedByBrace(s, p) == Ch(s, p + run_len(s, p, Whitespace)) = "{"

\* \\[a-zA-Z@]+(?!\s*\{): the longest letter run the lookahead accepts; when the
\* whole run is followed by a brace the regex backtracks to one letter less
GenericCmdAt(s, i) ==
    With(run_len(s, i + 1, CmdLetters), LAMBDA n :
    With(IF ~FollowedByBrace(s, i + 1 + n) THEN n ELSE n - 1, LAMBDA k :
        IF Ch(s, i) = "\\" /\ n >= 1 /\ k >= 1
        THEN [kind |-> "generic", start |-> i, end |-> i + 1 + k, whole |-> SubSeq(s, i, i + k)]
        ELSE NoMatch))

\* the alternatives in the order of _inline_pattern_str
InlineAlternatives(s, i) ==
    << BraceCmdAt(s, i, "textbf", "textbf"),
       BraceCmdAt(s, i, "textit", "textit"),
       BraceCmdAt(s, i, "emph", "emph"),
       BraceCmdAt(s, i, "underline", "underline"),
       BraceCmdAt(s, i, "texttt", "texttt"),
       TextcolorAt(s, i),
       ColorGroupAt(s, i),
       BraceCmdAt(s, i, "url", "url"),
       HrefAt(s, i),
       FirstNameAt(s, i, <<"cite", "citep", "citet", "citeauthor">>, "citation"),
       GenericCmdAt(s, i) >>

\* the match of COMPILED_INLINE_PATTERN at position i, if any; every
\* alternative starts with a backslash or an opening brace
InlineMatchAt(s, i) ==
    IF Ch(s, i) \in {"\\", "{"} THEN FirstMatch(InlineAlternatives(s, i)) ELSE NoMatch

\* the next match of finditer at or after position from
RECURSIVE InlineSearch(_, _)
InlineSearch(s, from) ==
    With(first_of(find(s, "\\", from), find(s, "{", from)), LAMBDA i :
        IF i = 0 THEN NoMatch
        ELSE With(InlineMatchAt(s, i), LAMBDA m :
                IF m.kind # "none" THEN m ELSE InlineSearch(s, i + 1)))

(***************************************************************************)
(* Inline markup parser: generate_runs and the merge pass                  *)
(* A formatting is a function from attribute names to values (a dict);     *)
(* the empty formatting is <<>>.                                           *)
(***************************************************************************)
EmptyFormatting == <<>>

\* new_formatting[key] = value
WithAttr(fmt, key, value) == (key :> value) @@ fmt

\* a text run as generate_runs appends it
TextRun(text, fmt) == [type |-> "text", text |-> text, formatting |-> fmt]

\* the citation run of lines 247-252
CitationRun(m) ==
    [type |-> "citation", display_text |-> "[" \o m.content \o "]",
     field_data |-> [key |-> m.content, latex_command |-> m.whole]]

\* new_formatting after the branch of the match (current_formatting.copy() plus the attribute)
NewFormatting(m, fmt, colors) ==
    CASE m.kind = "textbf" -> WithAttr(fmt, "bold", TRUE)
      [] m.kind \in {"textit", "emph"} -> WithAttr(fmt, "italic", TRUE)
      [] m.kind = "underline" -> WithAttr(fmt, "underline", TRUE)
      [] m.kind = "texttt" -> WithAttr(fmt, "font_name", "Courier New")
      [] m.kind \in {"textcolor", "colorgroup"} ->
            IF m.color \in DOMAIN colors THEN WithAttr(fmt, "color", colors[m.color]) ELSE fmt
      [] OTHER -> fmt

\* content_to_recurse after the branch of the match
ContentToRecurse(m) ==
    IF m.kind \in {"textbf", "textit", "emph", "underline", "texttt", "textcolor", "colorgroup"}
    THEN strip(m.content) ELSE ""

\* the runs the branch itself appends (url, href, citation)
BranchRuns(m, fmt) ==
    CASE m.kind \in {"url", "href"} -> <<TextRun(_clean_latex_text_segment(strip(m.content)), fmt)>>
      [] m.kind = "citation" -> <<CitationRun(m)>>
      [] OTHER -> <<>>

\* the plain text of text_segment[last_pos:start], cleaned, when not empty
PlainRuns(seg, from, to, fmt) ==
    With(_clean_latex_text_segment(SubSeq(seg, from, to)), LAMBDA plain_text :
        IF from <= to /\ plain_text # "" THEN <<TextRun(plain_text, fmt)>> ELSE <<>>)

\* generate_runs(text_segment, current_formatting); runs_from is its for loop
\* resumed at last_pos
RECURSIVE runs_from(_, _, _, _)
runs_from(seg, last_pos, fmt, colors) ==
    With(InlineSearch(seg, last_pos), LAMBDA m :
        IF m.kind = "none" THEN PlainRuns(seg, last_pos, Len(seg), fmt)
        ELSE PlainRuns(seg, last_pos, m.start - 1, fmt)
             \o BranchRuns(m, fmt)
             \o With(ContentToRecurse(m), LAMBDA rec :
                   IF rec # "" THEN runs_from(rec, 1, NewFormatting(m, fmt, colors), colors) ELSE <<>>)
             \o runs_from(seg, m.end, fmt, colors))

generate_runs(text_segment, current_formatting, colors) ==
    runs_from(text_segment, 1, current_formatting, colors)

\* item.get("text", "").strip() or item["type"] != "text"
KeepsRun(item) == item.type # "text" \/ strip(item.text) # ""

\* lines 286-288: an empty formatting is deleted from a text item
NormalizeRun(item) ==
    IF item.type = "text" /\ "formatting" \in DOMAIN item /\ item.formatting = EmptyFormatting
    THEN [type |-> "text", text |-> item.text] ELSE item

\* a.get("formatting") == b.get("formatting")
SameFormatting(a, b) ==
    IF "formatting" \in DOMAIN a /\ "formatting" \in DOMAIN b
    THEN a.formatting = b.formatting
    ELSE ("formatting" \in DOMAIN a) = ("formatting" \in DOMAIN b)

\* merged_items[-1]["text"] += item["text"]
AppendText(merged, item) ==
    [merged EXCEPT ![Len(merged)] = [@ EXCEPT !.text = @ \o item.text]]

\* MergeStep without the merge branch: every kept item is appended
MergeStepNoMerge(merged, raw_item) ==
    With(NormalizeRun(raw_item), LAMBDA item :
        IF KeepsRun(item) THEN Append(merged, item) ELSE merged)

\* one iteration of the loop of lines 285-292
MergeStep(merged, raw_item) ==
    With(NormalizeRun(raw_item), LAMBDA item :
        IF merged # <<>> /\ merged[Len(merged)].type = "text" /\ item.type = "text"
           /\ SameFormatting(merged[Len(merged)], item)
        THEN AppendText(merged, item)
        ELSE IF KeepsRun(item) THEN Append(merged, item)
        ELSE merged)

RECURSIVE MergeRuns(_, _)
MergeRuns(merged, raw_items) ==
    IF raw_items = <<>> THEN merged
    ELSE With(MergeStep(merged, Head(raw_items)), LAMBDA m : MergeRuns(m, Tail(raw_items)))

\* the list comprehension of line 293
RECURSIVE FilterRuns(_)
FilterRuns(items) ==
    IF items = <<>> THEN <<>>
    ELSE (IF KeepsRun(Head(items)) THEN <<Head(items)>> ELSE <<>>) \o FilterRuns(Tail(items))

_parse_inline_text_to_content_items(latex_string, macros, colors) ==
    With(_expand_macros(latex_string, 0, macros), LAMBDA expanded :
    With(generate_runs(expanded, EmptyFormatting, colors), LAMBDA raw_items :
    With(MergeRuns(<<>>, raw_items), LAMBDA merged_items :
        FilterRuns(merged_items))))

(***************************************************************************)
(* _extract_definitions: \newcommand                                       *)
(***************************************************************************)
\* (?!\s*\[) fails at position p
FollowedByBracket(s, p) == Ch(s, p + run_len(s, p, Whitespace)) = "["

\* the end of (.*?)\}(?!\s*\[) started at position k: the first closing brace on
\* the line that no bracket follows, 0 when there is none ("." stops at a newline)
RECURSIVE NewcommandBodyEnd(_, _)
NewcommandBodyEnd(s, k) ==
    IF k > Len(s) THEN 0
    ELSE IF Ch(s, k) = "}" /\ ~FollowedByBracket(s, k + 1) THEN k
    ELSE IF Ch(s, k) = "\n" THEN 0
    ELSE NewcommandBodyEnd(s, k + 1)

\* \\newcommand\{\s*\\(\w+)\s*\}\s*\{(.*?)\}(?!\s*\[) at position i
NewcommandAt(s, i) ==
    With(i + Len("\\newcommand{") + run_len(s, i + Len("\\newcommand{"), Whitespace), LAMBDA q :
    With(run_len(s, q + 1, WordChars), LAMBDA n :
    With(q + 1 + n + run_len(s, q + 1 + n, Whitespace), LAMBDA r :
    With(r + 1 + run_len(s, r + 1, Whitespace), LAMBDA t :
    With(NewcommandBodyEnd(s, t + 1), LAMBDA j :
        IF startswith(s, i, "\\newcommand{") /\ Ch(s, q) = "\\" /\ n >= 1
           /\ Ch(s, r) = "}" /\ Ch(s, t) = "{" /\ j # 0
        THEN [kind |-> "newcommand", start |-> i, end |-> j + 1,
              cmd |-> SubSeq(s, q + 1, q + n), replacement |-> SubSeq(s, t + 1, j - 1)]
        ELSE NoMatch)))))

\* self.macros[cmd] = replacement: a known key keeps its place in the dict
SetMacro(macros, cmd, replacement) ==
    IF \E k \in 1..Len(macros) : macros[k].cmd = cmd
    THEN [k \in 1..Len(macros) |->
            IF macros[k].cmd = cmd THEN [cmd |-> cmd, replacement |-> replacement] ELSE macros[k]]
    ELSE Append(macros, [cmd |-> cmd, replacement |-> replacement])

\* the first loop of _extract_definitions (re.finditer over the preamble)
RECURSIVE ExtractNewcommands(_, _, _)
ExtractNewcommands(s, from, macros) ==
    With(find(s, "\\newcommand{", from), LAMBDA i :
        IF i = 0 THEN macros
        ELSE With(NewcommandAt(s, i), LAMBDA m :
                IF m.kind = "none" THEN ExtractNewcommands(s, i + 1, macros)
                ELSE ExtractNewcommands(s, m.end, SetMacro(macros, m.cmd, m.replacement))))

(***************************************************************************)
(* Block parser: cleaning, block_pattern, paragraphs                       *)
(***************************************************************************)
\* the position of the next "\n" at or after i, Len(s) + 1 when there is none
EndOfLine(s, i) == LET j == find(s, "\n", i) IN IF j = 0 THEN Len(s) + 1 ELSE j

\* the next match of (?<!\\)% at or after from, 0 when there is none
RECURSIVE NextComment(_, _)
NextComment(s, from) ==
    LET i == find(s, "%", from) IN
    IF i = 0 THEN 0
    ELSE IF Ch(s, i - 1) = "\\" THEN NextComment(s, i + 1)
    ELSE i

\* re.sub(r"(?<!\\)%.*", "", s): an unescaped % and the rest of its line
RECURSIVE StripComments(_, _)
StripComments(s, from) ==
    With(NextComment(s, from), LAMBDA i :
        IF i = 0 THEN Tail_from(s, from)
        ELSE SubSeq(s, from, i - 1) \o StripComments(s, EndOfLine(s, i)))

\* re.sub(r"%TC:ignore.*?%TC:endignore", "", s, flags=re.DOTALL)
RECURSIVE RemoveIgnored(_, _)
RemoveIgnored(s, from) ==
    With(find(s, "%TC:ignore", from), LAMBDA i :
    With(find(s, "%TC:endignore", i + Len("%TC:ignore")), LAMBDA j :
        IF i = 0 \/ j = 0 THEN Tail_from(s, from)
        ELSE SubSeq(s, from, i - 1) \o RemoveIgnored(s, j + Len("%TC:endignore"))))

\* lines 360-361 (and 567-568 for the preamble)
CleanSource(raw) ==
    With(StripComments(raw, 1), LAMBDA uncommented : RemoveIgnored(uncommented, 1))

\* the environment names of block_pattern, in the order of the alternation
BlockEnvNames ==
    <<"figure", "table", "itemize", "enumerate", "quotation", "verbatim",
      "longtable", "tabularx", "tabular", "subcaption", "subfigure">>

\* \\begin\{name\}(.*?)\\end\{name\} at position i
EnvAt(s, i, name) ==
    With(find(s, "\\end{" \o name \o "}", i + Len("\\begin{" \o name \o "}")), LAMBDA j :
        IF startswith(s, i, "\\begin{" \o name \o "}") /\ j # 0
        THEN [kind |-> "env", start |-> i, end |-> j + Len("\\end{" \o name \o "}"), name |-> name,
              content |-> SubSeq(s, i + Len("\\begin{" \o name \o "}"), j - 1)]
        ELSE NoMatch)

FirstEnvAt(s, i, names) == FirstMatch([k \in 1..Len(names) |-> EnvAt(s, i, names[k])])

\* \\(newpage|clearpage) at position i
PageBreakAt(s, i) ==
    IF startswith(s, i, "\\newpage")
    THEN [kind |-> "page_break", start |-> i, end |-> i + Len("\\newpage"), command |-> "newpage"]
    ELSE IF startswith(s, i, "\\clearpage")
    THEN [kind |-> "page_break", start |-> i, end |-> i + Len("\\clearpage"), command |-> "clearpage"]
    ELSE NoMatch

\* \\(printbibliography|bibliography\{(.*?)\}) at position i
BibliographyAt(s, i) ==
    With(find(s, "}", i + Len("\\bibliography{")), LAMBDA j :
        IF startswith(s, i, "\\printbibliography")
        THEN [kind |-> "bibliography", start |-> i, end |-> i + Len("\\printbibliography"),
              command |-> "printbibliography", has_file |-> FALSE, file |-> ""]
        ELSE IF startswith(s, i, "\\bibliography{") /\ j # 0
        THEN [kind |-> "bibliography", start |-> i, end |-> j + 1,
              command |-> SubSeq(s, i + 1, j), has_file |-> TRUE,
              file |-> SubSeq(s, i + Len("\\bibliography{"), j - 1)]
        ELSE NoMatch)

\* the match of block_pattern at position i, if any
BlockMatchAt(s, i) ==
    IF Ch(s, i) # "\\" THEN NoMatch
    ELSE FirstMatch(<< FirstNameAt(s, i, <<"section", "subsection", "subsubsection">>, "section"),
                       FirstEnvAt(s, i, BlockEnvNames),
                       PageBreakAt(s, i),
                       BibliographyAt(s, i) >>)

\* block_pattern.search(s, from - 1)
RECURSIVE BlockSearch(_, _)
BlockSearch(s, from) ==
    With(find(s, "\\", from), LAMBDA i :
        IF i = 0 THEN NoMatch
        ELSE With(BlockMatchAt(s, i), LAMBDA m :
                IF m.kind # "none" THEN m ELSE BlockSearch(s, i + 1)))

\* the last "\n" of s[from..to], 0 when there is none
LastNewline(s, from, to) ==
    LET newlines == {k \in from..to : Ch(s, k) = "\n"}
    IN  IF newlines = {} THEN 0 ELSE Greatest(newlines)

\* re.split(r'\n\s*\n+', s): a separator starts at a newline and runs to the last
\* newline of the whitespace that follows it
RECURSIVE SplitParagraphs(_, _, _)
SplitParagraphs(s, from, scan) ==
    With(find(s, "\n", scan), LAMBDA i :
    With(LastNewline(s, i + 1, i + run_len(s, i, Whitespace) - 1), LAMBDA l :
        IF i = 0 THEN <<Tail_from(s, from)>>
        ELSE IF l = 0 THEN SplitParagraphs(s, from, i + 1)
        ELSE <<SubSeq(s, from, i - 1)>> \o SplitParagraphs(s, l + 1, l + 1)))

\* a block of the content list and the position of the source it comes from
ParagraphBlock(items) == [type |-> "normal", content |-> items]

\* lines 374-378: one paragraph block per non-empty paragraph with runs
RECURSIVE ParagraphBlocks(_, _, _)
ParagraphBlocks(paragraphs, macros, colors) ==
    IF paragraphs = <<>> THEN <<>>
    ELSE With(strip(Head(paragraphs)), LAMBDA para_latex :
         With(_parse_inline_text_to_content_items(para_latex, macros, colors), LAMBDA items :
            (IF para_latex # "" /\ items # <<>> THEN <<ParagraphBlock(items)>> ELSE <<>>)
            \o ParagraphBlocks(Tail(paragraphs), macros, colors)))

\* lines 371-378: the blocks of the text before the match
TextBeforeBlocks(text_before_match_raw, macros, colors) ==
    With(strip(text_before_match_raw), LAMBDA text_before :
        IF text_before = "" THEN <<>>
        ELSE ParagraphBlocks(SplitParagraphs(text_before, 1, 1), macros, colors))

(***************************************************************************)
(* Block parser: the branches of the scan loop                             *)
(* An optional value (None or a value) is <<>> or <<value>>.               *)
(***************************************************************************)
None == <<>>
Some(v) == <<v>>

\* heading1, heading2, heading3 from the section command
HeadingType(sec_type_str) ==
    CASE sec_type_str = "section" -> "heading1"
      [] sec_type_str = "subsection" -> "heading2"
      [] sec_type_str = "subsubsection" -> "heading3"
      [] OTHER -> "heading1"

\* lines 381-385
SectionBlocks(m, macros, colors) ==
    With(_parse_inline_text_to_content_items(strip(m.content), macros, colors), LAMBDA sec_title_items :
        IF sec_title_items # <<>>
        THEN <<[type |-> HeadingType(m.name), content |-> sec_title_items]>>
        ELSE <<>>)

\* re.search of \\name(?:\[(.*?)\])?\{(.*?)\} from position from
RECURSIVE SearchOptBrace(_, _, _, _)
SearchOptBrace(s, from, name, kind) ==
    With(find(s, "\\" \o name, from), LAMBDA i :
        IF i = 0 THEN NoMatch
        ELSE With(OptBraceCmdAt(s, i, name, kind), LAMBDA m :
                IF m.kind # "none" THEN m ELSE SearchOptBrace(s, i + 1, name, kind)))

\* re.search of \\name\{(.*?)\}
SearchBraceCmd(s, name) ==
    With(find(s, "\\" \o name \o "{", 1), LAMBDA i :
        IF i = 0 THEN NoMatch ELSE BraceCmdAt(s, i, name, name))

(***************************************************************************)
(* _find_image_path, over a set of existing files                          *)
(***************************************************************************)
\* self.base_dir
BaseDir == "/doc"

\* os.path.isabs
isabs(path) == startswith(path, 1, "/")

\* os.path.join(a, b)
path_join(a, b) ==
    IF isabs(b) THEN b
    ELSE IF a = "" \/ Ch(a, Len(a)) = "/" THEN a \o b
    ELSE a \o "/" \o b

\* the components of a path that normpath keeps, ".." removing the one before it
RECURSIVE NormComponents(_, _)
NormComponents(comps, kept) ==
    IF comps = <<>> THEN kept
    ELSE LET c == Head(comps) IN
         IF c = "" \/ c = "." THEN NormComponents(Tail(comps), kept)
         ELSE IF c = ".." /\ kept # <<>> /\ kept[Len(kept)] # ".."
         THEN NormComponents(Tail(comps), SubSeq(kept, 1, Len(kept) - 1))
         ELSE IF c = ".." /\ kept = <<>> THEN NormComponents(Tail(comps), kept)
         ELSE NormComponents(Tail(comps), Append(kept, c))

RECURSIVE JoinSlash(_)
JoinSlash(comps) ==
    IF comps = <<>> THEN ""
    ELSE IF Len(comps) = 1 THEN Head(comps)
    ELSE Head(comps) \o "/" \o JoinSlash(Tail(comps))

\* os.path.normpath of an absolute path
normpath(path) == "/" \o JoinSlash(NormComponents(split(path, "/"), <<>>))

\* the first path of the search list that exists, None when there is none
RECURSIVE FirstExisting(_, _, _)
FirstExisting(search_paths, image_name, files) ==
    IF search_paths = <<>> THEN None
    ELSE With(normpath(path_join(path_join(BaseDir, Head(search_paths)), image_name)), LAMBDA path_to_check :
            IF path_to_check \in files THEN Some(path_to_check)
            ELSE FirstExisting(Tail(search_paths), image_name, files))

NotFoundWarning(image_name) == "Warning: Image '" \o image_name \o "' not found"

\* a variant of _find_image_path that loses the name of an image it does not find
_find_image_path_Lossy(image_name, graphicspath, files) ==
    With(FirstExisting(graphicspath, image_name, files), LAMBDA hit :
        IF isabs(image_name) /\ image_name \in files THEN [path |-> image_name, printed |-> <<>>]
        ELSE IF hit # None THEN [path |-> hit[1], printed |-> <<>>]
        ELSE [path |-> "", printed |-> <<>>])

\* lines 295-322: the path returned and the message printed
_find_image_path(image_name, graphicspath, files) ==
    With(FirstExisting(graphicspath, image_name, files), LAMBDA hit :
        IF isabs(image_name) /\ image_name \in files THEN [path |-> image_name, printed |-> <<>>]
        ELSE IF hit # None THEN [path |-> hit[1], printed |-> <<>>]
        ELSE [path |-> image_name, printed |-> <<NotFoundWarning(image_name)>>])

\* lines 388-390: the blocks and the messages of a figure environment
FigureResult(m, graphicspath, files) ==
    With(SearchOptBrace(m.content, 1, "includegraphics", "includegraphics"), LAMBDA img_match :
        IF img_match.kind = "none" THEN [blocks |-> <<>>, printed |-> <<>>]
        ELSE With(_find_image_path(img_match.content, graphicspath, files), LAMBDA found :
                [blocks |-> <<[type |-> "normal", content |-> <<[type |-> "image", path |-> found.path]>>]>>,
                 printed |-> found.printed]))

(***************************************************************************)
(* itemize and enumerate                                                   *)
(***************************************************************************)
UpperCase == "ABCDEFGHIJKLMNOPQRSTUVWXYZ"
LowerCase == "abcdefghijklmnopqrstuvwxyz"

lower_ch(c) ==
    IF \E k \in 1..26 : Ch(UpperCase, k) = c
    THEN Ch(LowerCase, CHOOSE k \in 1..26 : Ch(UpperCase, k) = c)
    ELSE c

\* s.lower() on the ASCII range (re.IGNORECASE compares letters this way)
RECURSIVE lower(_)
lower(s) ==
    IF Len(s) = 0 THEN ""
    ELSE IF Len(s) = 1 THEN lower_ch(s)
    ELSE lower(SubSeq(s, 1, Len(s) \div 2)) \o lower(Tail_from(s, Len(s) \div 2 + 1))

\* (?=\\item|\\end\{env\}|\Z): the first position at or after c where the lookahead holds
ItemEnd(ls, c, end_tag) ==
    IF c > Len(ls) THEN c
    ELSE Least({k \in c..(Len(ls) + 1) :
                  k > Len(ls) \/ startswith(ls, k, "\\item") \/ startswith(ls, k, end_tag)})

\* \\item(?:\s+|\[.*?\]\s*)(.*?)(?=...) at position i; ls is s in lower case
ItemAt(s, ls, i, end_tag) ==
    With(i + Len("\\item"), LAMBDA p :
    With(run_len(s, p, Whitespace), LAMBDA w :
    With(find(s, "]", p + 1), LAMBDA rb :
    With(IF w >= 1 THEN p + w ELSE rb + 1 + run_len(s, rb + 1, Whitespace), LAMBDA c :
    With(ItemEnd(ls, c, end_tag), LAMBDA k :
        IF startswith(ls, i, "\\item") /\ (w >= 1 \/ (Ch(s, p) = "[" /\ rb # 0))
        THEN [kind |-> "item", start |-> i, end |-> k, content |-> SubSeq(s, c, k - 1)]
        ELSE NoMatch)))))

\* run.get("formatting") as an optional value
FormattingOpt(run) == IF "formatting" \in DOMAIN run THEN Some(run.formatting) ELSE None

\* a loop over the runs that compares no run with the first one
RECURSIVE ItemScanFirst(_, _, _)
ItemScanFirst(parsed_item_runs, i, st) ==
    IF i > Len(parsed_item_runs) THEN st
    ELSE With(parsed_item_runs[i], LAMBDA run :
         ItemScanFirst(parsed_item_runs, i + 1,
            IF run.type = "text"
            THEN [parts |-> Append(st.parts, run.text),
                  first |-> IF i = 1 THEN FormattingOpt(run) ELSE st.first,
                  consistent |-> st.consistent]
            ELSE IF run.type = "citation"
            THEN [parts |-> Append(st.parts, run.display_text), first |-> st.first, consistent |-> FALSE]
            ELSE st))

\* lines 398-405: the state of the loop over the runs of an item after run i
RECURSIVE ItemScan(_, _, _)
ItemScan(parsed_item_runs, i, st) ==
    IF i > Len(parsed_item_runs) THEN st
    ELSE With(parsed_item_runs[i], LAMBDA run :
         ItemScan(parsed_item_runs, i + 1,
            IF run.type = "text"
            THEN [parts |-> Append(st.parts, run.text),
                  first |-> IF i = 1 THEN FormattingOpt(run) ELSE st.first,
                  consistent |-> st.consistent /\ (i = 1 \/ FormattingOpt(run) = st.first)]
            ELSE IF run.type = "citation"
            THEN [parts |-> Append(st.parts, run.display_text), first |-> st.first, consistent |-> FALSE]
            ELSE st))

\* lines 395-410: the list items (none or one) of one \item
ListItems(item_content_raw, macros, colors) ==
    With(ItemScan(_parse_inline_text_to_content_items(item_content_raw, macros, colors), 1,
                  [parts |-> <<>>, first |-> None, consistent |-> TRUE]), LAMBDA st :
    With(strip(join(st.parts)), LAMBDA final_item_text :
        IF item_content_raw = "" \/ final_item_text = "" THEN <<>>
        ELSE IF st.consistent /\ st.first # None
        THEN <<[text |-> final_item_text, formatting |-> st.first[1]]>>
        ELSE <<[text |-> final_item_text]>>))

\* the loop over re.finditer of the item pattern
RECURSIVE ItemsFrom(_, _, _, _, _, _)
ItemsFrom(s, ls, from, end_tag, macros, colors) ==
    With(find(ls, "\\item", from), LAMBDA i :
        IF i = 0 THEN <<>>
        ELSE With(ItemAt(s, ls, i, end_tag), LAMBDA m :
                IF m.kind = "none" THEN ItemsFrom(s, ls, i + 1, end_tag, macros, colors)
                ELSE ListItems(strip(m.content), macros, colors)
                     \o ItemsFrom(s, ls, m.end, end_tag, macros, colors)))

\* lines 391-411
ListBlocks(m, macros, colors) ==
    With(ItemsFrom(m.content, lower(m.content), 1, lower("\\end{" \o m.name \o "}"), macros, colors), LAMBDA items :
        IF items # <<>>
        THEN <<[type |-> "list", list_type |-> IF m.name = "itemize" THEN "bullet" ELSE "number",
                level |-> 0, items |-> items]>>
        ELSE <<>>)

\* lines 412-415
QuotationBlocks(m, macros, colors) ==
    With(_parse_inline_text_to_content_items(strip(m.content), macros, colors), LAMBDA quote_items :
        IF quote_items # <<>>
        THEN <<[type |-> "normal", formatting |-> [left_indent |-> "0.5", right_indent |-> "0.5"],
                content |-> quote_items]>>
        ELSE <<>>)

\* lines 416-418
VerbatimBlocks(m) ==
    <<[type |-> "normal",
       content |-> <<[type |-> "text", text |-> strip(m.content),
                      formatting |-> [font_name |-> "Courier New"]]>>]>>
(***************************************************************************)
(* Tables                                                                  *)
(***************************************************************************)
\* re.match(r"\\cline\s*\{.*?\}(.*)", row): group 1 stripped, "" when there is no match
ClineRest(row) ==
    With(1 + Len("\\cline") + run_len(row, 1 + Len("\\cline"), Whitespace), LAMBDA q :
    With(find(row, "}", q + 1), LAMBDA j :
        IF Ch(row, q) = "{" /\ j # 0 /\ j < EndOfLine(row, q)
        THEN strip(SubSeq(row, j + 1, EndOfLine(row, j) - 1))
        ELSE ""))

\* the while loop of lines 454-458 (490-494)
RECURSIVE StripRules(_)
StripRules(row_data_string) ==
    IF startswith(row_data_string, 1, "\\hline")
    THEN StripRules(strip(Tail_from(row_data_string, 1 + Len("\\hline"))))
    ELSE IF startswith(row_data_string, 1, "\\cline")
    THEN StripRules(ClineRest(row_data_string))
    ELSE row_data_string

\* the cells of a row: every part of the split, stripped and inline-parsed
RECURSIVE ParseCells(_, _, _)
ParseCells(cells_latex, macros, colors) ==
    IF cells_latex = <<>> THEN <<>>
    ELSE <<_parse_inline_text_to_content_items(strip(Head(cells_latex)), macros, colors)>>
         \o ParseCells(Tail(cells_latex), macros, colors)

\* any(any(item.get("text", "").strip() for item in cell_data) for cell_data in cells)
RowHasText(cells) ==
    \E c \in 1..Len(cells) : \E k \in 1..Len(cells[c]) :
        "text" \in DOMAIN cells[c][k] /\ strip(cells[c][k].text) # ""

\* lines 452-463 (488-499): the data rows of the source rows
RECURSIVE ParseRows(_, _, _)
ParseRows(rows_latex, macros, colors) ==
    IF rows_latex = <<>> THEN <<>>
    ELSE With(StripRules(strip(Head(rows_latex))), LAMBDA row_data_string :
         With(ParseCells(split(row_data_string, "&"), macros, colors), LAMBDA cells :
            (IF row_data_string # "" /\ RowHasText(cells) THEN <<[cells |-> cells]>> ELSE <<>>)
            \o ParseRows(Tail(rows_latex), macros, colors)))

\* lines 451-463 (487-499)
TableData(tabular_data_content, macros, colors) ==
    ParseRows(split(strip(tabular_data_content), "\\\\"), macros, colors)

\* the names the inner tabular pattern accepts
InnerTabularNames == <<"tabularx", "tabular", "tabular*", "supertabular", "xtabular">>

\* \\begin\{name\}\s*(\{[^}]*\})?(.*?)\\end\{name\} at position i
TabularAt(s, i, name) ==
    With("\\end{" \o name \o "}", LAMBDA e :
    With(i + Len("\\begin{" \o name \o "}")
           + run_len(s, i + Len("\\begin{" \o name \o "}"), Whitespace), LAMBDA q :
    With(find(s, "}", q + 1), LAMBDA c :
    With(find(s, e, c + 1), LAMBDA e1 :
    With(find(s, e, q), LAMBDA e2 :
        IF ~startswith(s, i, "\\begin{" \o name \o "}") THEN NoMatch
        ELSE IF Ch(s, q) = "{" /\ c # 0 /\ e1 # 0
        THEN [kind |-> "tabular", start |-> i, end |-> e1 + Len(e),
              col_spec |-> Some(SubSeq(s, q, c)), content |-> SubSeq(s, c + 1, e1 - 1)]
        ELSE IF e2 # 0
        THEN [kind |-> "tabular", start |-> i, end |-> e2 + Len(e),
              col_spec |-> None, content |-> SubSeq(s, q, e2 - 1)]
        ELSE NoMatch)))))

FirstTabularAt(s, i, names) == FirstMatch([k \in 1..Len(names) |-> TabularAt(s, i, names[k])])

\* re.search of the inner tabular pattern (line 431)
RECURSIVE SearchTabular(_, _)
SearchTabular(s, from) ==
    With(find(s, "\\begin{", from), LAMBDA i :
        IF i = 0 THEN NoMatch
        ELSE With(FirstTabularAt(s, i, InnerTabularNames), LAMBDA m :
                IF m.kind # "none" THEN m ELSE SearchTabular(s, i + 1)))

\* re.search of \\begin\{(tabular)\}(.*?)\\end\{\1\}: the last fallback (line 435)
RECURSIVE SearchSimpleTabular(_, _)
SearchSimpleTabular(s, from) ==
    With(find(s, "\\begin{tabular}", from), LAMBDA i :
        IF i = 0 THEN NoMatch
        ELSE With(EnvAt(s, i, "tabular"), LAMBDA m :
                IF m.kind # "none"
                THEN [kind |-> "tabular", start |-> m.start, end |-> m.end,
                      col_spec |-> None, content |-> m.content]
                ELSE SearchSimpleTabular(s, i + 1)))

\* lines 431-435: the pattern of line 433 is the one of line 431 with the column
\* spec required, so it matches nothing that line 431 does not
InnerTabularMatch(s) ==
    With(SearchTabular(s, 1), LAMBDA m :
        IF m.kind # "none" THEN m ELSE SearchSimpleTabular(s, 1))

\* a caption is kept when it is a non-empty run list
Truthy(opt) == opt # None /\ opt[1] # <<>>

\* lines 420-466
TableFloatBlocks(m, macros, colors) ==
    With(InnerTabularMatch(m.content), LAMBDA inner_tabular_match :
    With(IF inner_tabular_match.kind # "none"
         THEN TableData(inner_tabular_match.content, macros, colors) ELSE <<>>, LAMBDA data :
    With(SearchBraceCmd(m.content, "caption"), LAMBDA caption_match :
    With(IF caption_match.kind # "none"
         THEN Some(_parse_inline_text_to_content_items(strip(caption_match.content), macros, colors))
         ELSE None, LAMBDA caption :
    With(SearchBraceCmd(m.content, "label"), LAMBDA label_match :
    With([type |-> "table", data |-> data,
          label |-> IF label_match.kind # "none" THEN Some(strip(label_match.content)) ELSE None,
          caption |-> caption], LAMBDA table_float_obj :
        IF data # <<>> \/ Truthy(caption)
        THEN <<IF inner_tabular_match.kind # "none" /\ inner_tabular_match.col_spec # None
               THEN [column_spec |-> strip(inner_tabular_match.col_spec[1])] @@ table_float_obj
               ELSE table_float_obj>>
        ELSE <<>>))))))

\* re.match(r"\s*(\{[^}]*\})", content): the end of the match, 0 when there is none
ColSpecEnd(content) ==
    With(1 + run_len(content, 1, Whitespace), LAMBDA q :
        IF Ch(content, q) = "{" THEN find(content, "}", q + 1) ELSE 0)

\* lines 469-486: the end of the column spec (0 when there is none), the
\* caption and the label of a longtable, and the content without the three
DirectTableParts(m) ==
    With(ColSpecEnd(m.content), LAMBDA ce :
    With(IF ce # 0 THEN Tail_from(m.content, ce + 1) ELSE m.content, LAMBDA c1 :
    With(IF m.name = "longtable" THEN SearchBraceCmd(c1, "caption") ELSE NoMatch, LAMBDA caption_match :
    With(IF caption_match.kind # "none" THEN replace(c1, caption_match.whole, "") ELSE c1, LAMBDA c2 :
    With(IF m.name = "longtable" THEN SearchBraceCmd(c2, "label") ELSE NoMatch, LAMBDA label_match :
        [ce |-> ce, caption_match |-> caption_match, label_match |-> label_match,
         content |-> IF label_match.kind # "none" THEN replace(c2, label_match.whole, "") ELSE c2])))))

\* lines 468-502
DirectTableBlocks(m, macros, colors) ==
    With(DirectTableParts(m), LAMBDA parts :
    With(TableData(parts.content, macros, colors), LAMBDA data :
    With(IF parts.caption_match.kind # "none"
         THEN Some(_parse_inline_text_to_content_items(strip(parts.caption_match.content), macros, colors))
         ELSE None, LAMBDA caption :
    With([type |-> "table", data |-> data,
          label |-> IF parts.label_match.kind # "none" THEN Some(strip(parts.label_match.content)) ELSE None,
          caption |-> caption, environment_type |-> m.name], LAMBDA table_obj :
        IF data # <<>> \/ Truthy(caption)
        THEN <<IF parts.ce # 0
               THEN [column_spec |->
                        strip(SubSeq(m.content, 1 + run_len(m.content, 1, Whitespace), parts.ce))]
                    @@ table_obj
               ELSE table_obj>>
        ELSE <<>>))))

\* lines 386-519: the blocks and the messages of an environment match
EnvironmentResult(m, macros, colors, graphicspath, files) ==
    CASE m.name = "figure" -> FigureResult(m, graphicspath, files)
      [] m.name \in {"itemize", "enumerate"} -> [blocks |-> ListBlocks(m, macros, colors), printed |-> <<>>]
      [] m.name = "quotation" -> [blocks |-> QuotationBlocks(m, macros, colors), printed |-> <<>>]
      [] m.name = "verbatim" -> [blocks |-> VerbatimBlocks(m), printed |-> <<>>]
      [] m.name = "table" -> [blocks |-> TableFloatBlocks(m, macros, colors), printed |-> <<>>]
      [] m.name \in {"longtable", "tabularx", "tabular"} ->
            [blocks |-> DirectTableBlocks(m, macros, colors), printed |-> <<>>]
      [] OTHER -> [blocks |-> <<>>, printed |-> <<>>]

\* lines 543-549: paragraph-like blocks get a content, the order is kept
NormalizeBlock(block) ==
    IF block.type \in {"normal", "heading1", "heading2", "heading3", "title_paragraph"}
       /\ (("content" \notin DOMAIN block) \/ block.content = <<>>)
    THEN [content |-> <<[type |-> "text", text |-> ""]>>] @@ block
    ELSE block

FinalContent(content) == [k \in 1..Len(content) |-> NormalizeBlock(content[k])]
(***************************************************************************)
(* _extract_definitions: \definecolor                                      *)
(***************************************************************************)
HexDigits == "0123456789ABCDEF"

\* the value of a decimal digit character
DigitValue(c) == (CHOOSE k \in 1..10 : Ch(HexDigits, k) = c) - 1

\* the digits of s as a number
RECURSIVE DigitsValue(_)
DigitsValue(s) ==
    IF s = "" THEN 0 ELSE DigitsValue(SubSeq(s, 1, Len(s) - 1)) * 10 + DigitValue(Ch(s, Len(s)))

RECURSIVE Pow10(_)
Pow10(k) == IF k = 0 THEN 1 ELSE 10 * Pow10(k - 1)

\* float(x) for a plain decimal literal: [+-]digits[.digits]; kind is "number",
\* "inf", "nan" or "error" (ValueError).  Exponents and underscores are not
\* part of the literals the model feeds in.
ParseFloat(x0) ==
    With(strip(x0), LAMBDA x :
    With(IF Ch(x, 1) \in {"+", "-"} THEN Tail_from(x, 2) ELSE x, LAMBDA body :
    With(run_len(body, 1, Digits), LAMBDA ni :
    With(IF Ch(body, ni + 1) = "." THEN run_len(body, ni + 2, Digits) ELSE 0, LAMBDA nf :
    With(lower(body), LAMBDA word :
        IF word \in {"inf", "infinity"} THEN [kind |-> "inf"]
        ELSE IF word = "nan" THEN [kind |-> "nan"]
        ELSE IF ni + (IF Ch(body, ni + 1) = "." THEN 1 + nf ELSE 0) = Len(body) /\ ni + nf >= 1
        THEN [kind |-> "number", neg |-> Ch(x, 1) = "-",
              num |-> DigitsValue(SubSeq(body, 1, ni) \o SubSeq(body, ni + 2, ni + 1 + nf)),
              scale |-> nf]
        ELSE [kind |-> "error"])))))

\* int(r * 255): the product truncated towards zero
ScaleTo255(f) ==
    With((f.num * 255) \div Pow10(f.scale), LAMBDA q : IF f.neg THEN 0 - q ELSE q)

RECURSIVE HexOf(_)
HexOf(n) == IF n < 16 THEN Ch(HexDigits, n + 1) ELSE HexOf(n \div 16) \o Ch(HexDigits, (n % 16) + 1)

\* format(n, "02X")
Format02X(n) ==
    With(IF n < 0 THEN "-" \o HexOf(0 - n) ELSE HexOf(n), LAMBDA h :
        IF Len(h) < 2 THEN "0" \o h ELSE h)

\* s.upper() on the ASCII range
upper_ch(c) ==
    IF \E k \in 1..26 : Ch(LowerCase, k) = c
    THEN Ch(UpperCase, CHOOSE k \in 1..26 : Ch(LowerCase, k) = c)
    ELSE c

RECURSIVE upper(_)
upper(s) ==
    IF Len(s) = 0 THEN ""
    ELSE IF Len(s) = 1 THEN upper_ch(s)
    ELSE upper(SubSeq(s, 1, Len(s) \div 2)) \o upper(Tail_from(s, Len(s) \div 2 + 1))

\* re.match(r"^[0-9A-Fa-f]{6}$", spec)
IsHex6(spec) ==
    Len(spec) = 6 /\ \A k \in 1..6 : \E h \in 1..16 : Ch(HexDigits, h) = upper_ch(Ch(spec, k))

\* \}\s*\{(HTML|rgb)\}\s*\{(.*?)\} at position k (the brace that ends the name)
ColorTailAt(s, k) ==
    With(k + 1 + run_len(s, k + 1, Whitespace), LAMBDA q :
    With(IF startswith(s, q, "{HTML}") THEN "HTML"
         ELSE IF startswith(s, q, "{rgb}") THEN "rgb" ELSE "", LAMBDA model :
    With(q + Len(model) + 2 + run_len(s, q + Len(model) + 2, Whitespace), LAMBDA t :
    With(find(s, "}", t + 1), LAMBDA j :
        IF Ch(s, k) = "}" /\ model # "" /\ Ch(s, t) = "{" /\ j # 0 /\ j < EndOfLine(s, t)
        THEN [kind |-> "definecolor", end |-> j + 1, model |-> model, spec |-> SubSeq(s, t + 1, j - 1)]
        ELSE NoMatch))))

\* the end of the lazy name group: the first k on the line where the tail matches
ColorNameEnd(s, k) ==
    LET ends == {c \in k..(EndOfLine(s, k) - 1) : ColorTailAt(s, c).kind # "none"}
    IN  IF ends = {} THEN 0 ELSE Least(ends)

\* \\definecolor\{(.*?)\}\s*\{(HTML|rgb)\}\s*\{(.*?)\} at position i
DefinecolorAt(s, i) ==
    With(i + Len("\\definecolor{"), LAMBDA p :
    With(ColorNameEnd(s, p), LAMBDA k :
        IF startswith(s, i, "\\definecolor{") /\ k # 0
        THEN With(ColorTailAt(s, k), LAMBDA tail :
                [kind |-> "definecolor", start |-> i, end |-> tail.end,
                 name |-> strip(SubSeq(s, p, k - 1)), model |-> tail.model, spec |-> tail.spec])
        ELSE NoMatch))

\* the three numbers of an rgb spec; kind is "ok", "ValueError" or "OverflowError"
ParseRgb(spec) ==
    With(split(spec, ","), LAMBDA parts :
    With([k \in 1..Len(parts) |-> ParseFloat(parts[k])], LAMBDA fs :
        IF \E k \in 1..Len(parts) : fs[k].kind = "error" THEN [kind |-> "ValueError"]
        ELSE IF Len(parts) # 3 THEN [kind |-> "ValueError"]
        ELSE IF \E k \in 1..3 : fs[k].kind # "number"
        THEN With(CHOOSE k \in 1..3 : fs[k].kind # "number" /\ \A l \in 1..(k - 1) : fs[l].kind = "number",
                  LAMBDA k : [kind |-> IF fs[k].kind = "inf" THEN "OverflowError" ELSE "ValueError"])
        ELSE [kind |-> "ok",
              hex |-> "#" \o Format02X(ScaleTo255(fs[1])) \o Format02X(ScaleTo255(fs[2]))
                          \o Format02X(ScaleTo255(fs[3]))]))

RgbWarning(spec, name) ==
    "Warning: Could not parse rgb color spec '" \o spec \o "' for color '" \o name \o "'."

\* lines 111-120 for one match: the colour table, the messages and the exception after it
DefineColor(st, m) ==
    IF m.model = "HTML"
    THEN IF IsHex6(m.spec)
         THEN [st EXCEPT !.colors = (m.name :> ("#" \o upper(m.spec))) @@ @]
         ELSE st
    ELSE With(ParseRgb(m.spec), LAMBDA rgb :
            IF rgb.kind = "ok" THEN [st EXCEPT !.colors = (m.name :> rgb.hex) @@ @]
            ELSE IF rgb.kind = "ValueError" THEN [st EXCEPT !.printed = Append(@, RgbWarning(m.spec, m.name))]
            ELSE [st EXCEPT !.raised = rgb.kind])

\* the second loop of _extract_definitions; it stops at an uncaught exception
RECURSIVE ExtractColors(_, _, _)
ExtractColors(s, from, st) ==
    With(find(s, "\\definecolor{", from), LAMBDA i :
        IF i = 0 \/ st.raised # "" THEN st
        ELSE With(DefinecolorAt(s, i), LAMBDA m :
                IF m.kind = "none" THEN ExtractColors(s, i + 1, st)
                ELSE ExtractColors(s, m.end, DefineColor(st, m))))

\* _extract_definitions: the macro table, the colour table, the messages, the exception
_extract_definitions(preamble, macros, colors) ==
    With(ExtractColors(preamble, 1, [colors |-> colors, printed |-> <<>>, raised |-> ""]), LAMBDA st :
        [macros |-> ExtractNewcommands(preamble, 1, macros), colors |-> st.colors,
         printed |-> st.printed, raised |-> st.raised])

(***************************************************************************)
(* _strip_latex_commands and _parse_preamble                               *)
(***************************************************************************)
\* \\[a-zA-Z@]+(?:\[[^\]]*\])?\{(.*?)\} at position i ("." stops at a newline)
ArgCmdAt(s, i) ==
    With(run_len(s, i + 1, CmdLetters), LAMBDA n :
    With(find(s, "]", i + n + 2), LAMBDA rb :
    With(IF Ch(s, i + 1 + n) = "[" /\ rb # 0 THEN rb + 1 ELSE i + 1 + n, LAMBDA bp :
    With(find(s, "}", bp + 1), LAMBDA j :
        IF Ch(s, i) = "\\" /\ n >= 1 /\ Ch(s, bp) = "{" /\ j # 0 /\ j < EndOfLine(s, bp)
        THEN [kind |-> "argcmd", start |-> i, end |-> j + 1, content |-> SubSeq(s, bp + 1, j - 1)]
        ELSE NoMatch))))

\* re.sub(pattern, r"\1", text): a command with an argument becomes its argument
RECURSIVE UnwrapCommands(_, _)
UnwrapCommands(s, from) ==
    With(find(s, "\\", from), LAMBDA i :
        IF i = 0 THEN Tail_from(s, from)
        ELSE With(ArgCmdAt(s, i), LAMBDA m :
                IF m.kind = "none" THEN SubSeq(s, from, i) \o UnwrapCommands(s, i + 1)
                ELSE SubSeq(s, from, i - 1) \o m.content \o UnwrapCommands(s, m.end)))

\* re.sub(r"\\[a-zA-Z@]+", "", text)
RECURSIVE DropCommands(_, _)
DropCommands(s, from) ==
    With(find(s, "\\", from), LAMBDA i :
    With(run_len(s, i + 1, CmdLetters), LAMBDA n :
        IF i = 0 THEN Tail_from(s, from)
        ELSE IF n = 0 THEN SubSeq(s, from, i) \o DropCommands(s, i + 1)
        ELSE SubSeq(s, from, i - 1) \o DropCommands(s, i + 1 + n)))

\* for _ in range(3): the two substitutions, until nothing changes
StripRounds == 3

RECURSIVE StripLoop(_, _)
StripLoop(text, rounds) ==
    IF rounds = 0 THEN text
    ELSE With(UnwrapCommands(text, 1), LAMBDA unwrapped :
         With(DropCommands(unwrapped, 1), LAMBDA t :
            IF t = text THEN t ELSE StripLoop(t, rounds - 1)))

_strip_latex_commands(text) ==
    With(StripLoop(text, StripRounds), LAMBDA t :
    With(replace(t, "{", ""), LAMBDA t1 :
    With(replace(t1, "}", ""), LAMBDA t2 :
    With(strip(t2), LAMBDA t3 :
        _clean_latex_text_segment(t3)))))

\* the end of the lazy group of \{\s*\{(.*?)\}\s*\}: the first "}" that a "}" follows
RECURSIVE GraphicspathEnd(_, _)
GraphicspathEnd(s, k) ==
    With(find(s, "}", k), LAMBDA j :
        IF j = 0 THEN 0
        ELSE IF Ch(s, j + 1 + run_len(s, j + 1, Whitespace)) = "}" THEN j
        ELSE GraphicspathEnd(s, j + 1))

\* re.search(r"\\graphicspath\{\s*\{(.*?)\}\s*\}", s, re.DOTALL): group 1 as an optional value
RECURSIVE SearchGraphicspath(_, _)
SearchGraphicspath(s, from) ==
    With(find(s, "\\graphicspath{", from), LAMBDA i :
    With(i + Len("\\graphicspath{") + run_len(s, i + Len("\\graphicspath{"), Whitespace), LAMBDA q :
    With(GraphicspathEnd(s, q + 1), LAMBDA j :
        IF i = 0 THEN None
        ELSE IF Ch(s, q) = "{" /\ j # 0 THEN Some(SubSeq(s, q + 1, j - 1))
        ELSE SearchGraphicspath(s, i + 1))))

\* [p.strip() for p in paths if p.strip()]
RECURSIVE StripNonEmpty(_)
StripNonEmpty(parts) ==
    IF parts = <<>> THEN <<>>
    ELSE With(strip(Head(parts)), LAMBDA p :
            (IF p # "" THEN <<p>> ELSE <<>>) \o StripNonEmpty(Tail(parts)))

\* lines 137-144: the argument of \title or \author with its macros expanded and
\* its commands stripped, as an optional value
PreambleField(preamble_text, name, macros) ==
    With(SearchBraceCmd(preamble_text, name), LAMBDA field_match :
        IF field_match.kind # "none"
        THEN With(_expand_macros(strip(field_match.content), 0, macros), LAMBDA expanded_field :
                Some(_strip_latex_commands(expanded_field)))
        ELSE None)

\* _parse_preamble: the properties, the title block and the graphics path
_parse_preamble(preamble_text, macros, properties, graphicspath) ==
    With(PreambleField(preamble_text, "title", macros), LAMBDA title :
    With(PreambleField(preamble_text, "author", macros), LAMBDA author :
    With(SearchGraphicspath(preamble_text, 1), LAMBDA gp :
        [properties |->
            [k \in DOMAIN properties |->
                IF k = "title" /\ title # None THEN title[1]
                ELSE IF k = "author" /\ author # None THEN author[1]
                ELSE properties[k]],
         blocks |-> IF title # None /\ title[1] # ""
                    THEN <<[type |-> "title_paragraph", content |-> <<[type |-> "text", text |-> title[1]]>>]>>
                    ELSE <<>>,
         graphicspath |-> IF gp # None THEN StripNonEmpty(split(strip(gp[1]), "}{")) ELSE graphicspath])))

(***************************************************************************)
(* _parse_body: one iteration of the scan loop                             *)
(***************************************************************************)
\* the number of groups of block_pattern
BlockPatternGroups == 8

\* the group the page-break branch reads, and the one the bibliography branch reads
PAGE_BREAK_GROUP == 10
BIB_COMMAND_GROUP == 11

\* match.group(n) raises IndexError when the pattern has no group n
GroupRaises(n) == n > BlockPatternGroups

\* lines 521-525
PageBreakResult(m) ==
    IF GroupRaises(PAGE_BREAK_GROUP)
    THEN [blocks |-> <<>>, printed |-> <<>>, raised |-> "IndexError"]
    ELSE [blocks |-> <<[type |-> "page_break", command |-> m.command]>>, printed |-> <<>>, raised |-> ""]

\* lines 527-541
BibliographyResult(m) ==
    IF GroupRaises(BIB_COMMAND_GROUP)
    THEN [blocks |-> <<>>, printed |-> <<>>, raised |-> "IndexError"]
    ELSE [blocks |-> <<[type |-> "bibliography", command |-> m.command,
                        bib_files |-> IF m.has_file /\ m.file # "" THEN <<strip(m.file)>> ELSE <<>>,
                        options |-> <<>>]>>,
          printed |-> <<>>, raised |-> ""]

\* lines 381-541: the branch taken for a match
MatchResult(m, macros, colors, graphicspath, files) ==
    CASE m.kind = "section" ->
            [blocks |-> SectionBlocks(m, macros, colors), printed |-> <<>>, raised |-> ""]
      [] m.kind = "env" ->
            [raised |-> ""] @@ EnvironmentResult(m, macros, colors, graphicspath, files)
      [] m.kind = "page_break" -> PageBreakResult(m)
      [] m.kind = "bibliography" -> BibliographyResult(m)
      [] OTHER -> [blocks |-> <<>>, printed |-> <<>>, raised |-> ""]

\* lines 370-541: the search from current_pos, the paragraphs of the text before
\* the match, and the branch of the match
IterationResult(body_text_cleaned, current_pos, macros, colors, graphicspath, files) ==
    With(BlockSearch(body_text_cleaned, current_pos), LAMBDA match :
    With(MatchResult(match, macros, colors, graphicspath, files), LAMBDA r :
        [match |-> match,
         before |-> TextBeforeBlocks(
                        SubSeq(body_text_cleaned, current_pos,
                               IF match.kind # "none" THEN match.start - 1 ELSE Len(body_text_cleaned)),
                        macros, colors),
         blocks |-> r.blocks, printed |-> r.printed, raised |-> r.raised]))

\* a variant of AppendBlocks that puts the new blocks first
AppendBlocksFirst(content, blocks) == blocks \o content

\* self.json_output["content"].append(block) for each of the blocks
AppendBlocks(content, blocks) == content \o blocks

\* n times the source position pos, for the n blocks that come from it
Origins(n, pos, kind) == [k \in 1..n |-> [pos |-> pos, kind |-> kind]]

(***************************************************************************)
(* convert                                                                 *)
(***************************************************************************)
\* re.search(r"\\begin\{document\}(.*?)\\end\{document\}", s, re.DOTALL)
DocumentEnvSearch(s) ==
    With(find(s, "\\begin{document}", 1), LAMBDA i :
    With(find(s, "\\end{document}", i + Len("\\begin{document}")), LAMBDA j :
        IF i = 0 \/ j = 0 THEN NoMatch
        ELSE [kind |-> "document", start |-> i, end |-> j + Len("\\end{document}"),
              content |-> SubSeq(s, i + Len("\\begin{document}"), j - 1)]))

\* lines 561-565: the raw preamble and the raw body
SplitDocument(latex_content) ==
    With(DocumentEnvSearch(latex_content), LAMBDA doc_env_match :
        IF doc_env_match.kind = "none"
        THEN [preamble |-> "", body |-> latex_content]
        ELSE [preamble |-> SubSeq(latex_content, 1, doc_env_match.start - 1),
              body |-> doc_env_match.content])

\* what jsonschema.validate does with the document: it returns, it raises
\* ValidationError, or it raises another exception
ValidatorOutcomes == {"valid", "invalid", "error"}

\* _validate_output: the value returned, the outcome and the message
_validate_output(schema, outcome) ==
    IF ~schema
    THEN [valid |-> TRUE, outcome |-> "skipped",
          printed |-> <<"Skipping JSON validation (jsonschema not available or schema not loaded).">>]
    ELSE IF outcome = "valid"
    THEN [valid |-> TRUE, outcome |-> outcome, printed |-> <<"JSON validation successful against schema.">>]
    ELSE IF outcome = "invalid"
    THEN [valid |-> FALSE, outcome |-> outcome, printed |-> <<"JSON Validation Error">>]
    ELSE [valid |-> FALSE, outcome |-> outcome,
          printed |-> <<"An unexpected error occurred during JSON validation">>]

FailedValidationMessage == "JSON output failed validation. Review warnings/errors."

\* a variant of ConvertResult that returns nothing when the validation fails
ConvertResultStrict(valid, json_output) == IF valid THEN Some(json_output) ELSE None

\* lines 575-577: the value convert returns after the validation
ConvertResult(valid, json_output) == Some(json_output)
(***************************************************************************)
(* State                                                                   *)
(***************************************************************************)
VARIABLES
    macros,           \* self.macros
    defined_colors,   \* self.defined_colors
    preamble,         \* the preamble text the definitions are extracted from
    text,             \* the text given to the operation
    npieces,          \* the number of pieces text is made of
    pc,               \* the control position
    runs,             \* the result of _parse_inline_text_to_content_items
    cleaned,          \* the result of _clean_latex_text_segment
    expanded,         \* the text argument of the current _expand_macros call
    depth,            \* the depth argument of the current _expand_macros call
    passes,           \* the substitution passes made so far
    schema,           \* self.schema is loaded and jsonschema is available
    latex_content,    \* self.latex_content
    preamble_text,    \* preamble_text_cleaned of convert
    body_text,        \* body_text_raw of convert, then body_text_cleaned of _parse_body
    current_pos,      \* current_pos of _parse_body as a position (0 before the scan)
    content,          \* self.json_output["content"]
    origin,           \* for each block of content, the source position it comes from
    properties,       \* title and author of self.json_output["properties"]
    graphicspath,     \* self.graphicspath
    diag,             \* the messages printed so far
    validation,       \* the outcome of _validate_output
    result,           \* the value convert returned
    exc,              \* the exception that left convert, "" when there is none
    exit_code,        \* the exit status of the command-line run, Running until it ends
    output_file,      \* the document written to the output file, None when none is written
    heap,             \* the dictionaries of the process, by address; the first is LATEX_COLOR_TO_HEX
    instances,        \* the converter instances that run side by side, with the addresses of their tables
    returned          \* for each call of convert that returned a document: the object and its content then

instVars   == <<macros, defined_colors>>
inputVars  == <<preamble, text, npieces>>
inlineVars == <<runs>>
cleanVars  == <<cleaned>>
expandVars == <<expanded, depth, passes>>
convertVars == <<schema, latex_content, preamble_text, body_text, current_pos, content, origin,
                 properties, graphicspath, diag, validation, result, exc>>
procVars == <<exit_code, output_file>>
heapVars == <<heap, instances>>
callVars == <<returned>>
envVars == <<procVars, heapVars, callVars>>
vars == <<instVars, inputVars, pc, inlineVars, cleanVars, expandVars, convertVars, envVars>>

\* __init__: no macro, the built-in colours
NewInstance ==
    /\ macros = <<>>
    /\ defined_colors = LATEX_COLOR_TO_HEX

NoInline == runs = <<>>
NoClean  == cleaned = ""
NoExpand == expanded = "" /\ depth = 0 /\ passes = 0

\* the exit status of a run that has not ended
Running == -1

\* __init__ and _get_default_json: nothing read, nothing parsed, nothing written
NoConvert ==
    /\ exit_code = Running /\ output_file = None
    /\ returned = <<>>
    /\ latex_content = "" /\ preamble_text = "" /\ body_text = ""
    /\ current_pos = 0
    /\ content = <<>> /\ origin = <<>>
    /\ properties = [title |-> "Untitled Document", author |-> "Unknown Author"]
    /\ graphicspath = <<"./", "">>
    /\ diag = <<>>
    /\ validation = "not_run"
    /\ result = None
    /\ exc = ""

\* the address of the module-level dictionary LATEX_COLOR_TO_HEX
PaletteAddress == 1

\* the process holds the built-in palette and no instance running side by side
NoInstances ==
    /\ heap = <<LATEX_COLOR_TO_HEX>>
    /\ instances = <<>>

\* the input grows by one piece
AddPiece(pieces, max) ==
    /\ pc = "build"
    /\ npieces < max
    /\ \E p \in pieces : text' = text \o p
    /\ npieces' = npieces + 1
    /\ UNCHANGED <<preamble, pc>>

(***************************************************************************)
(* The inline parser applied to bounded inputs                             *)
(***************************************************************************)
MaxInlinePieces == 3

InlinePieces ==
    {"\\textbf{bold ", "\\textit{both}", "}", "\\textbf{a}", " ", "x",
     "\\citep{a,b}", "\\cite[p. 3]{k}", "\\m"}

InlinePreambles == {"", "\\newcommand{\\m}{\\textit{a}}"}

InitInline ==
    /\ preamble \in InlinePreambles
    /\ macros = ExtractNewcommands(preamble, 1, <<>>)
    /\ defined_colors = LATEX_COLOR_TO_HEX
    /\ text = "" /\ npieces = 0 /\ pc = "build"
    /\ NoInline /\ NoClean /\ NoExpand
    /\ schema = FALSE /\ NoConvert /\ NoInstances

InlineAddPiece ==
    /\ AddPiece(InlinePieces, MaxInlinePieces)
    /\ UNCHANGED <<instVars, inlineVars, cleanVars, expandVars, convertVars, envVars>>

InlineParse ==
    /\ pc = "build"
    /\ runs' = _parse_inline_text_to_content_items(text, macros, defined_colors)
    /\ pc' = "parsed"
    /\ UNCHANGED <<instVars, inputVars, cleanVars, expandVars, convertVars, envVars>>

NextInline == InlineAddPiece \/ InlineParse

SpecInline == InitInline /\ [][NextInline]_vars

(***************************************************************************)
(* The text cleaner applied to bounded inputs                              *)
(***************************************************************************)
MaxCleanPieces == 4

CleanPieces == {"\\", "%", "&", "{", "a", "\\newline", "~", "_"}

InitClean ==
    /\ preamble = "" /\ NewInstance
    /\ text = "" /\ npieces = 0 /\ pc = "build"
    /\ NoInline /\ NoClean /\ NoExpand
    /\ schema = FALSE /\ NoConvert /\ NoInstances

CleanAddPiece ==
    /\ AddPiece(CleanPieces, MaxCleanPieces)
    /\ UNCHANGED <<instVars, inlineVars, cleanVars, expandVars, convertVars, envVars>>

Clean ==
    /\ pc = "build"
    /\ cleaned' = _clean_latex_text_segment(text)
    /\ pc' = "cleaned"
    /\ UNCHANGED <<instVars, inputVars, inlineVars, expandVars, convertVars, envVars>>

NextClean == CleanAddPiece \/ Clean

SpecClean == InitClean /\ [][NextClean]_vars

(***************************************************************************)
(* The macro expander, one recursive call per step                         *)
(***************************************************************************)
MaxExpandPieces == 2

ExpandPieces == {"\\self", "\\a", "\\prepend", "x", "\\mycmd{Hello}{World}"}

MacroPreambles ==
    {"",
     "\\newcommand{\\self}{\\self}",
     "\\newcommand{\\a}{\\b}\n\\newcommand{\\b}{\\a}",
     "\\newcommand{\\a}{x\\b}\n\\newcommand{\\b}{y\\a}",
     "\\newcommand{\\prepend}{X\\prepend}",
     "\\newcommand{\\c}{z}\n\\newcommand{\\a}{\\c \\c}",
     "\\newcommand{\\mycmd}[2]{Arg1: #1, Arg2: #2}"}

InitExpand ==
    /\ preamble \in MacroPreambles
    /\ macros = ExtractNewcommands(preamble, 1, <<>>)
    /\ defined_colors = LATEX_COLOR_TO_HEX
    /\ text = "" /\ npieces = 0 /\ pc = "build"
    /\ NoInline /\ NoClean /\ NoExpand
    /\ schema = FALSE /\ NoConvert /\ NoInstances

ExpandAddPiece ==
    /\ AddPiece(ExpandPieces, MaxExpandPieces)
    /\ UNCHANGED <<instVars, inlineVars, cleanVars, expandVars, convertVars, envVars>>

\* the call self._expand_macros(text)
ExpandCall ==
    /\ pc = "build"
    /\ expanded' = text /\ depth' = 0 /\ passes' = 0
    /\ pc' = "expanding"
    /\ UNCHANGED <<instVars, inputVars, inlineVars, cleanVars, convertVars, envVars>>


\* lines 124-133 when the pass changes the text: the recursive call
ExpandRecurse ==
    /\ pc = "expanding"
    /\ ~DepthExceeded(depth)
    /\ expand_pass(expanded, macros) # expanded
    /\ expanded' = expand_pass(expanded, macros)
    /\ depth' = depth + 1
    /\ passes' = passes + 1
    /\ UNCHANGED <<instVars, inputVars, pc, inlineVars, cleanVars, convertVars, envVars>>

\* the text is returned after one pass, whether the pass changed it or not
ExpandFixedPointEarly ==
    /\ pc = "expanding"
    /\ ~DepthExceeded(depth)
    /\ expanded' = expand_pass(expanded, macros)
    /\ passes' = passes + 1
    /\ pc' = "expanded"
    /\ UNCHANGED <<instVars, inputVars, depth, inlineVars, cleanVars, convertVars, envVars>>

\* lines 124-133 when the pass changes nothing: the text is returned
ExpandFixedPoint ==
    /\ pc = "expanding"
    /\ ~DepthExceeded(depth)
    /\ expand_pass(expanded, macros) = expanded
    /\ expanded' = expanded
    /\ passes' = passes + 1
    /\ pc' = "expanded"
    /\ UNCHANGED <<instVars, inputVars, depth, inlineVars, cleanVars, convertVars, envVars>>

\* line 123: the text is returned as it is
ExpandBound ==
    /\ pc = "expanding"
    /\ DepthExceeded(depth)
    /\ pc' = "expanded"
    /\ UNCHANGED <<instVars, inputVars, expandVars, inlineVars, cleanVars, convertVars, envVars>>

NextExpand == ExpandAddPiece \/ ExpandCall \/ ExpandRecurse \/ ExpandFixedPoint \/ ExpandBound

SpecExpand == InitExpand /\ [][NextExpand]_vars


(***************************************************************************)
(* convert, one step per stage and one step per iteration of the scan loop *)
(***************************************************************************)
MaxBodyPieces == 2

BodyPieces ==
    {"\\section{S}",
     "\\begin{figure}\\includegraphics{ok.png}\\end{figure}",
     "\\begin{figure}x\\end{figure}",
     "\\begin{itemize}\\item i\\end{itemize}",
     "\\begin{table}t\\end{table}",
     "\\begin{tabular}{l}a & b\\end{tabular}",
     "\\begin{verbatim}v\\end{verbatim}",
     "\\newpage",
     "\\bibliography{r}",
     "p \\m",
     "\n\n"}

ConvertPreambles == {"", "\\title{T \\m}\n\\newcommand{\\m}{M}\n\\graphicspath{{img/}}\n"}

\* the files that exist on disk
ExistingFiles == {"/doc/img/ok.png"}

\* the content of the source file: the body alone, or a preamble and a document environment
FileContent ==
    IF preamble = "" THEN text
    ELSE preamble \o "\\begin{document}" \o text \o "\\end{document}"

\* the dictionary that line 52 binds to self.json_output; no other line binds the attribute
JsonOutputObject == "self.json_output"

\* self.json_output
JsonOutput == [properties |-> properties, content |-> content]

Init ==
    /\ preamble \in ConvertPreambles
    /\ NewInstance
    /\ text = "" /\ npieces = 0 /\ pc = "build"
    /\ NoInline /\ NoClean /\ NoExpand
    /\ schema \in BOOLEAN
    /\ NoConvert /\ NoInstances

BodyAddPiece ==
    /\ AddPiece(BodyPieces, MaxBodyPieces)
    /\ UNCHANGED <<instVars, inlineVars, cleanVars, expandVars, convertVars, envVars>>

\* lines 553-555: the file is read
ReadFile ==
    /\ pc = "build"
    /\ latex_content' = FileContent
    /\ pc' = "definitions"
    /\ UNCHANGED <<instVars, inputVars, inlineVars, cleanVars, expandVars, envVars, schema, preamble_text,
                   body_text, current_pos, content, origin, properties, graphicspath, diag,
                   validation, result, exc>>

\* lines 556-558: the file does not exist, convert returns None
ReadMissing ==
    /\ pc = "build"
    /\ diag' = Append(diag, "Error: File not found")
    /\ result' = None
    /\ pc' = "returned"
    /\ UNCHANGED <<instVars, inputVars, inlineVars, cleanVars, expandVars, envVars, schema, latex_content,
                   preamble_text, body_text, current_pos, content, origin, properties, graphicspath,
                   validation, exc>>

\* lines 553-555: open or read fails with another error, which leaves convert
ReadFails ==
    /\ pc = "build"
    /\ exc' = "OSError"
    /\ pc' = "raised"
    /\ UNCHANGED <<instVars, inputVars, inlineVars, cleanVars, expandVars, envVars, schema, latex_content,
                   preamble_text, body_text, current_pos, content, origin, properties, graphicspath,
                   diag, validation, result>>

\* lines 561-570: the split, the cleaning of the preamble, _extract_definitions
ExtractDefinitions ==
    /\ pc = "definitions"
    /\ With(SplitDocument(latex_content), LAMBDA parts :
       With(CleanSource(parts.preamble), LAMBDA preamble_text_cleaned :
       With(_extract_definitions(preamble_text_cleaned, macros, defined_colors), LAMBDA d :
           /\ preamble_text' = preamble_text_cleaned
           /\ body_text' = parts.body
           /\ macros' = d.macros
           /\ defined_colors' = d.colors
           /\ diag' = diag \o d.printed
           /\ exc' = d.raised
           /\ pc' = IF d.raised # "" THEN "raised" ELSE "preamble")))
    /\ UNCHANGED <<inputVars, inlineVars, cleanVars, expandVars, envVars, schema, latex_content, current_pos,
                   content, origin, properties, graphicspath, validation, result>>

\* lines 571-572: _expand_macros on the preamble and _parse_preamble
ParsePreamble ==
    /\ pc = "preamble"
    /\ With(_parse_preamble(_expand_macros(preamble_text, 0, macros), macros, properties, graphicspath),
            LAMBDA p :
           /\ properties' = p.properties
           /\ graphicspath' = p.graphicspath
           /\ content' = AppendBlocks(content, p.blocks)
           /\ origin' = AppendBlocks(origin, Origins(Len(p.blocks), 0, "title")))
    /\ pc' = "body"
    /\ UNCHANGED <<instVars, inputVars, inlineVars, cleanVars, expandVars, envVars, schema, latex_content,
                   preamble_text, body_text, current_pos, diag, validation, result, exc>>

\* StartBody with the definitions of the body extracted into the tables
StartBodyDefining ==
    /\ pc = "body"
    /\ body_text' = CleanSource(body_text)
    /\ With(_extract_definitions(body_text, macros, defined_colors), LAMBDA d :
           macros' = d.macros /\ defined_colors' = d.colors)
    /\ current_pos' = 1
    /\ pc' = "scan"
    /\ UNCHANGED <<inputVars, inlineVars, cleanVars, expandVars, envVars, schema, latex_content,
                   preamble_text, content, origin, properties, graphicspath, diag, validation,
                   result, exc>>

\* lines 360-368: the body is cleaned and the scan starts at its first position
StartBody ==
    /\ pc = "body"
    /\ body_text' = CleanSource(body_text)
    /\ macros' = macros /\ defined_colors' = defined_colors
    /\ current_pos' = 1
    /\ pc' = "scan"
    /\ UNCHANGED <<inputVars, inlineVars, cleanVars, expandVars, envVars, schema, latex_content,
                   preamble_text, content, origin, properties, graphicspath, diag, validation,
                   result, exc>>

\* the iteration of the scan loop at the current position
Iteration ==
    IterationResult(body_text, current_pos, macros, defined_colors, graphicspath, ExistingFiles)

\* an iteration that handles its match and leaves the scan position where it was
ScanMatchStuck(kind) ==
    /\ pc = "scan"
    /\ current_pos <= Len(body_text)
    /\ With(Iteration, LAMBDA r :
           /\ r.match.kind = kind
           /\ current_pos' = current_pos
           /\ With(AppendBlocks(content, r.before), LAMBDA with_before :
                 content' = IF r.raised # "" THEN with_before ELSE AppendBlocks(with_before, r.blocks))
           /\ With(AppendBlocks(origin, Origins(Len(r.before), current_pos, "paragraph")), LAMBDA origin_before :
                 origin' = IF r.raised # "" THEN origin_before
                           ELSE AppendBlocks(origin_before, Origins(Len(r.blocks), r.match.start, "construct")))
           /\ diag' = diag \o r.printed
           /\ exc' = r.raised
           /\ pc' = IF r.raised # "" THEN "raised" ELSE "scan")
    /\ UNCHANGED <<instVars, inputVars, inlineVars, cleanVars, expandVars, envVars, schema, latex_content,
                   preamble_text, body_text, properties, graphicspath, validation, result>>

\* lines 369-541: one iteration whose match is of the given kind.  The paragraphs
\* of the text before the match are appended first; the branch of the match then
\* appends its blocks, or raises.
ScanMatch(kind) ==
    /\ pc = "scan"
    /\ current_pos <= Len(body_text)
    /\ With(Iteration, LAMBDA r :
           /\ r.match.kind = kind
           /\ current_pos' = r.match.end
           /\ With(AppendBlocks(content, r.before), LAMBDA with_before :
                 content' = IF r.raised # "" THEN with_before ELSE AppendBlocks(with_before, r.blocks))
           /\ With(AppendBlocks(origin, Origins(Len(r.before), current_pos, "paragraph")), LAMBDA origin_before :
                 origin' = IF r.raised # "" THEN origin_before
                           ELSE AppendBlocks(origin_before, Origins(Len(r.blocks), r.match.start, "construct")))
           /\ diag' = diag \o r.printed
           /\ exc' = r.raised
           /\ pc' = IF r.raised # "" THEN "raised" ELSE "scan")
    /\ UNCHANGED <<instVars, inputVars, inlineVars, cleanVars, expandVars, envVars, schema, latex_content,
                   preamble_text, body_text, properties, graphicspath, validation, result>>

ScanSection == ScanMatch("section")

ScanEnvironment == ScanMatch("env")

ScanPageBreak == ScanMatch("page_break")

ScanBibliography == ScanMatch("bibliography")

\* lines 370-379: no match is left, the rest of the text gives paragraphs, the loop ends
ScanBreak ==
    /\ pc = "scan"
    /\ current_pos <= Len(body_text)
    /\ With(Iteration, LAMBDA r :
           /\ r.match.kind = "none"
           /\ content' = AppendBlocks(content, r.before)
           /\ origin' = AppendBlocks(origin, Origins(Len(r.before), current_pos, "paragraph")))
    /\ pc' = "normalize"
    /\ UNCHANGED <<instVars, inputVars, inlineVars, cleanVars, expandVars, envVars, schema, latex_content,
                   preamble_text, body_text, current_pos, properties, graphicspath, diag,
                   validation, result, exc>>

\* line 369: the position is at the end of the body, the loop ends
ScanExit ==
    /\ pc = "scan"
    /\ current_pos > Len(body_text)
    /\ pc' = "normalize"
    /\ UNCHANGED <<instVars, inputVars, inlineVars, cleanVars, expandVars, convertVars, envVars>>

\* lines 543-549: the final pass over the content
Normalize ==
    /\ pc = "normalize"
    /\ content' = FinalContent(content)
    /\ pc' = "validate"
    /\ UNCHANGED <<instVars, inputVars, inlineVars, cleanVars, expandVars, envVars, schema, latex_content,
                   preamble_text, body_text, current_pos, origin, properties, graphicspath, diag,
                   validation, result, exc>>

\* lines 575-577: the validation and the return
Validate ==
    /\ pc = "validate"
    /\ \E outcome \in ValidatorOutcomes :
          With(_validate_output(schema, outcome), LAMBDA v :
              /\ validation' = v.outcome
              /\ diag' = diag \o v.printed \o (IF v.valid THEN <<>> ELSE <<FailedValidationMessage>>)
              /\ result' = ConvertResult(v.valid, JsonOutput))
    /\ returned' = Append(returned, [object |-> JsonOutputObject, content |-> content])
    /\ pc' = "returned"
    /\ UNCHANGED <<instVars, inputVars, inlineVars, cleanVars, expandVars, procVars, heapVars, schema, latex_content,
                   preamble_text, body_text, current_pos, content, origin, properties, graphicspath,
                   exc>>

\* lines 612-615 of __main__: convert returned a document, which is written to the
\* output file; the script then ends
MainWrite ==
    /\ pc = "returned"
    /\ result # None
    /\ output_file' = result
    /\ diag' = Append(diag, "Conversion successful")
    /\ exit_code' = 0
    /\ pc' = "exited"
    /\ UNCHANGED <<instVars, inputVars, inlineVars, cleanVars, expandVars, schema, latex_content,
                   preamble_text, body_text, current_pos, content, origin, properties, graphicspath,
                   validation, result, exc, heapVars, callVars>>

\* lines 612-617 of __main__: convert returned None, a message is printed and the
\* script ends as every script that reaches its last line does
MainFailed ==
    /\ pc = "returned"
    /\ result = None
    /\ diag' = Append(diag, "Conversion failed")
    /\ exit_code' = 0
    /\ pc' = "exited"
    /\ UNCHANGED <<instVars, inputVars, inlineVars, cleanVars, expandVars, schema, latex_content,
                   preamble_text, body_text, current_pos, content, origin, properties, graphicspath,
                   validation, result, exc, output_file, heapVars, callVars>>

\* line 611 of __main__: an exception leaves convert, nothing catches it and the
\* interpreter ends with status 1
MainTraceback ==
    /\ pc = "raised"
    /\ exit_code' = 1
    /\ pc' = "exited"
    /\ UNCHANGED <<instVars, inputVars, inlineVars, cleanVars, expandVars, convertVars, output_file, heapVars,
                   callVars>>

Next ==
    \/ BodyAddPiece
    \/ ReadFile
    \/ ReadMissing
    \/ ReadFails
    \/ ExtractDefinitions
    \/ ParsePreamble
    \/ StartBody
    \/ ScanSection
    \/ ScanEnvironment
    \/ ScanPageBreak
    \/ ScanBibliography
    \/ ScanBreak
    \/ ScanExit
    \/ Normalize
    \/ Validate
    \/ MainWrite
    \/ MainFailed
    \/ MainTraceback

Spec == Init /\ [][Next]_vars

\* an iteration of the scan loop
ScanIteration ==
    ScanSection \/ ScanEnvironment \/ ScanPageBreak \/ ScanBibliography \/ ScanBreak \/ ScanExit

\* the states in which an iteration can be made, from the guards of the iterations
ScanCanStep ==
    /\ pc = "scan"
    /\ \/ current_pos > Len(body_text)
       \/ Iteration.match.kind \in {"none", "section", "env", "page_break", "bibliography"}

\* the interpreter runs the loop on: an iteration that can be made is made.
\* This is weak fairness of ScanIteration, WF_vars(ScanIteration), with the
\* enabling condition of the iteration written as ScanCanStep.
ScanFairness == []<>(~ScanCanStep) \/ []<><<ScanIteration>>_vars

SpecScanning == Spec /\ ScanFairness

(***************************************************************************)
(* tex_to_docx_converter.py: process_inline_elements                       *)
(***************************************************************************)
\* the alternatives of tokenizer_re in the order of the alternation
TokenAlternatives(s, i) ==
    << BraceCmdAt(s, i, "textbf", "textbf"),
       BraceCmdAt(s, i, "textit", "textit"),
       OptBraceCmdAt(s, i, "citet", "citet"),
       OptBraceCmdAt(s, i, "citep", "citep"),
       BraceCmdAt(s, i, "citeauthor", "citeauthor"),
       OptBraceCmdAt(s, i, "citeyearpar", "citeyearpar") >>

\* tokenizer_re.search(text_line, from)
RECURSIVE TokenSearch(_, _)
TokenSearch(s, from) ==
    With(find(s, "\\", from), LAMBDA i :
        IF i = 0 THEN NoMatch
        ELSE With(FirstMatch(TokenAlternatives(s, i)), LAMBDA m :
                IF m.kind # "none" THEN m ELSE TokenSearch(s, i + 1)))

\* [k.strip() for k in keys]
StripAll(keys) == [k \in 1..Len(keys) |-> strip(keys[k])]

\* the element appended for a match
TokenElement(m) ==
    CASE m.kind = "textbf" -> [type |-> "text", value |-> "**" \o m.content \o "**"]
      [] m.kind = "textit" -> [type |-> "text", value |-> "*" \o m.content \o "*"]
      [] m.kind = "citeauthor" ->
            [type |-> "citation", command |-> m.kind, keys |-> StripAll(split(m.content, ",")),
             prenote |-> "", postnote |-> ""]
      [] OTHER ->
            [type |-> "citation", command |-> m.kind, keys |-> StripAll(split(m.content, ",")),
             prenote |-> strip(m.opt), postnote |-> ""]

\* the while loop of process_inline_elements resumed at current_pos = pos
RECURSIVE ElementsFrom(_, _)
ElementsFrom(text_line, pos) ==
    IF pos > Len(text_line) THEN <<>>
    ELSE With(TokenSearch(text_line, pos), LAMBDA m :
            IF m.kind = "none"
            THEN <<[type |-> "text", value |-> Tail_from(text_line, pos)]>>
            ELSE (IF m.start > pos
                  THEN <<[type |-> "text", value |-> SubSeq(text_line, pos, m.start - 1)]>>
                  ELSE <<>>)
                 \o <<TokenElement(m)>>
                 \o ElementsFrom(text_line, m.end))

\* elem.get('value') or elem.get('type') == 'citation'
KeepsElement(elem) == elem.type = "citation" \/ elem.value # ""

process_inline_elements(text_line) == SelectSeq(ElementsFrom(text_line, 1), KeepsElement)

\* "".join(el.get('value', '') for el in content_elements)
RECURSIVE JoinValues(_)
JoinValues(elements) ==
    IF elements = <<>> THEN ""
    ELSE (IF Head(elements).type = "text" THEN Head(elements).value ELSE "") \o JoinValues(Tail(elements))

(***************************************************************************)
(* tex_to_docx_converter.py: parse_latex_options and parse_latex_to_json   *)
(***************************************************************************)
\* the dict of the key=value parts of an option string, a later part
\* replacing an earlier one of the same key
RECURSIVE OptionsOf(_, _)
OptionsOf(parts, options) ==
    IF parts = <<>> THEN options
    ELSE With(find(Head(parts), "=", 1), LAMBDA e :
            OptionsOf(Tail(parts),
                      IF e = 0 THEN options
                      ELSE (strip(SubSeq(Head(parts), 1, e - 1)) :> strip(Tail_from(Head(parts), e + 1)))
                           @@ options))

parse_latex_options(options_str) ==
    IF options_str = "" THEN <<>> ELSE OptionsOf(split(options_str, ","), <<>>)

\* latex_content.splitlines() for texts whose only line boundary is \n
splitlines(s) ==
    IF s = "" THEN <<>>
    ELSE With(split(s, "\n"), LAMBDA parts :
            IF parts[Len(parts)] = "" THEN SubSeq(parts, 1, Len(parts) - 1) ELSE parts)

\* " ".join(parts)
RECURSIVE JoinSpace(_)
JoinSpace(parts) ==
    IF parts = <<>> THEN ""
    ELSE IF Len(parts) = 1 THEN Head(parts)
    ELSE Head(parts) \o " " \o JoinSpace(Tail(parts))

\* the state of parse_latex_to_json before the first line
NewParse ==
    [json_output |-> <<>>, current_paragraph_text_accumulator |-> <<>>,
     current_list_item_accumulator |-> <<>>, in_itemize_env |-> FALSE, in_enumerate_env |-> FALSE]

flush_paragraph(st) ==
    IF st.current_paragraph_text_accumulator = <<>> THEN st
    ELSE With(strip(JoinSpace(st.current_paragraph_text_accumulator)), LAMBDA full_paragraph_str :
            [st EXCEPT !.current_paragraph_text_accumulator = <<>>,
                       !.json_output =
                           IF full_paragraph_str = "" THEN @
                           ELSE Append(@, [type |-> "paragraph",
                                           content |-> process_inline_elements(full_paragraph_str)])])

flush_list_item(st) ==
    IF st.current_list_item_accumulator = <<>> THEN st
    ELSE With(strip(JoinSpace(st.current_list_item_accumulator)), LAMBDA full_item_str :
            [st EXCEPT !.current_list_item_accumulator = <<>>,
                       !.json_output =
                           IF full_item_str = "" THEN @
                           ELSE Append(@, [type |-> IF st.in_itemize_env THEN "list_item_bullet"
                                                    ELSE "list_item_ordered",
                                           content |-> process_inline_elements(full_item_str)])])

\* env_item_pattern at position i of the line
EnvItemAt(s, i) ==
    IF startswith(s, i, "\\begin{itemize}")
    THEN [kind |-> "begin", env |-> "itemize", start |-> i, end |-> i + Len("\\begin{itemize}")]
    ELSE IF startswith(s, i, "\\begin{enumerate}")
    THEN [kind |-> "begin", env |-> "enumerate", start |-> i, end |-> i + Len("\\begin{enumerate}")]
    ELSE IF startswith(s, i, "\\end{itemize}")
    THEN [kind |-> "end", env |-> "itemize", start |-> i, end |-> i + Len("\\end{itemize}")]
    ELSE IF startswith(s, i, "\\end{enumerate}")
    THEN [kind |-> "end", env |-> "enumerate", start |-> i, end |-> i + Len("\\end{enumerate}")]
    ELSE IF startswith(s, i, "\\item")
            /\ (i + Len("\\item") > Len(s) \/ Ch(s, i + Len("\\item")) \in Whitespace)
    THEN [kind |-> "item", env |-> "", start |-> i,
          end |-> i + Len("\\item") + run_len(s, i + Len("\\item"), Whitespace)]
    ELSE NoMatch

\* env_item_pattern.search(segment_to_parse) for the segment that starts at from
EnvItemSearch(s, from) ==
    LET hits == {k \in from..Len(s) : EnvItemAt(s, k).kind # "none"}
    IN  IF hits = {} THEN NoMatch ELSE EnvItemAt(s, Least(hits))

\* the text before the command goes to the item or to the paragraph
AccumulateText(st, text_before_command) ==
    IF text_before_command = "" THEN st
    ELSE IF st.in_itemize_env \/ st.in_enumerate_env
    THEN [st EXCEPT !.current_list_item_accumulator = Append(@, text_before_command)]
    ELSE [st EXCEPT !.current_paragraph_text_accumulator = Append(@, text_before_command)]

\* the branches of the command that was matched
ApplyCommand(st, m, command_full_match) ==
    CASE m.kind = "begin" ->
            With(flush_list_item(flush_paragraph(st)), LAMBDA flushed :
                IF m.env = "itemize" THEN [flushed EXCEPT !.in_itemize_env = TRUE]
                ELSE [flushed EXCEPT !.in_enumerate_env = TRUE])
      [] m.kind = "end" ->
            With(flush_list_item(st), LAMBDA flushed :
                IF m.env = "itemize" /\ flushed.in_itemize_env THEN [flushed EXCEPT !.in_itemize_env = FALSE]
                ELSE IF m.env = "enumerate" /\ flushed.in_enumerate_env
                THEN [flushed EXCEPT !.in_enumerate_env = FALSE]
                ELSE flushed)
      [] m.kind = "item" ->
            IF st.in_itemize_env \/ st.in_enumerate_env THEN flush_list_item(st)
            ELSE [st EXCEPT !.current_paragraph_text_accumulator = Append(@, command_full_match)]

\* the inner while loop over the segments of a line, resumed at position from
RECURSIVE Segments(_, _, _)
Segments(line, from, st) ==
    IF from > Len(line) THEN st
    ELSE With(EnvItemSearch(line, from), LAMBDA m :
            IF m.kind = "none" THEN AccumulateText(st, Tail_from(line, from))
            ELSE With(AccumulateText(st, SubSeq(line, from, m.start - 1)), LAMBDA with_text :
                 With(ApplyCommand(with_text, m, SubSeq(line, m.start, m.end - 1)), LAMBDA applied :
                    Segments(line, m.end, applied))))

\* pattern.fullmatch(line) for \\name\{(.*)\}: group 1, if the line matches
FullBraceMatch(line, name) ==
    IF startswith(line, 1, "\\" \o name \o "{") /\ Ch(line, Len(line)) = "}" /\ Len(line) >= Len(name) + 3
    THEN Some(SubSeq(line, Len(name) + 3, Len(line) - 1))
    ELSE None

\* includegraphics_pattern.fullmatch(line): the groups, if the line matches
ImageMatch(line) ==
    With(Len("\\includegraphics") + 1, LAMBDA p :
    With(find(line, "]{", p + 1), LAMBDA k :
        IF ~startswith(line, 1, "\\includegraphics") \/ Ch(line, Len(line)) # "}" THEN None
        ELSE IF Ch(line, p) = "[" /\ k # 0 /\ Len(line) >= k + 2
        THEN Some([options |-> SubSeq(line, p + 1, k - 1), path |-> SubSeq(line, k + 2, Len(line) - 1)])
        ELSE IF Ch(line, p) = "{" /\ Len(line) >= p + 1
        THEN Some([options |-> "", path |-> SubSeq(line, p + 1, Len(line) - 1)])
        ELSE None))

\* the block of a line that is a command on its own, after both flushes
Standalone(st, block) ==
    With(flush_list_item(flush_paragraph(st)), LAMBDA flushed :
        [flushed EXCEPT !.json_output = Append(@, block)])

\* the block of a title or heading line
HeadingBlock(type, group) ==
    [type |-> type, content |-> JoinValues(process_inline_elements(strip(group)))]

\* one iteration of the loop over the lines
ParseLine(st, current_line_stripped) ==
    IF current_line_stripped = "" THEN flush_paragraph(flush_list_item(st))
    ELSE IF FullBraceMatch(current_line_stripped, "title") # None
    THEN Standalone(st, HeadingBlock("title", FullBraceMatch(current_line_stripped, "title")[1]))
    ELSE IF FullBraceMatch(current_line_stripped, "section") # None
    THEN Standalone(st, HeadingBlock("heading1", FullBraceMatch(current_line_stripped, "section")[1]))
    ELSE IF FullBraceMatch(current_line_stripped, "subsection") # None
    THEN Standalone(st, HeadingBlock("heading2", FullBraceMatch(current_line_stripped, "subsection")[1]))
    ELSE With(ImageMatch(current_line_stripped), LAMBDA image_match :
            IF image_match # None
            THEN Standalone(st, [type |-> "image", path |-> strip(image_match[1].path),
                                 options |-> parse_latex_options(image_match[1].options)])
            ELSE Segments(current_line_stripped, 1, st))

\* the loop over the lines, resumed at line_idx
RECURSIVE ParseLines(_, _, _)
ParseLines(input_lines, line_idx, st) ==
    IF line_idx > Len(input_lines) THEN st
    ELSE With(ParseLine(st, strip(input_lines[line_idx])), LAMBDA after_line :
            ParseLines(input_lines, line_idx + 1, after_line))

parse_latex_to_json(source) ==
    flush_paragraph(flush_list_item(ParseLines(splitlines(source), 1, NewParse))).json_output

(***************************************************************************)
(* parse_latex_to_json applied to bounded documents                        *)
(***************************************************************************)
MaxLineItems == 2

\* the entries of a list: their source and whether their text is non-empty
ItemEntries ==
    {[source |-> "\\item a\n", text |-> TRUE],
     [source |-> "\\item \\textbf{b}\n", text |-> TRUE],
     [source |-> "\\item\n", text |-> FALSE]}

\* the sequences of at most n entries
RECURSIVE EntrySeqs(_)
EntrySeqs(n) ==
    IF n = 0 THEN {<<>>}
    ELSE {<<>>} \cup {<<e>> \o r : e \in ItemEntries, r \in EntrySeqs(n - 1)}

ListEnvs == {"itemize", "enumerate"}

\* the block type the entries of an environment are expected to have
ItemType(env) == IF env = "itemize" THEN "list_item_bullet" ELSE "list_item_ordered"

\* the source of the entries, and the types expected for those that have a text
RECURSIVE EntriesSource(_)
EntriesSource(entries) ==
    IF entries = <<>> THEN "" ELSE Head(entries).source \o EntriesSource(Tail(entries))

RECURSIVE EntriesTypes(_, _)
EntriesTypes(entries, env) ==
    IF entries = <<>> THEN <<>>
    ELSE (IF Head(entries).text THEN <<ItemType(env)>> ELSE <<>>) \o EntriesTypes(Tail(entries), env)

\* a list of the given entries: its source and the types expected in order
ListCase(env, entries) ==
    [source |-> "\\begin{" \o env \o "}\n" \o EntriesSource(entries) \o "\\end{" \o env \o "}\n",
     types |-> EntriesTypes(entries, env)]

SimpleListCases == {ListCase(env, entries) : env \in ListEnvs, entries \in EntrySeqs(MaxLineItems)}

\* a list of one entry followed by a list of one entry
FollowingListCases ==
    {[source |-> a.source \o b.source, types |-> a.types \o b.types] :
        a \in {ListCase(env, <<e>>) : env \in ListEnvs, e \in ItemEntries},
        b \in {ListCase(env, <<e>>) : env \in ListEnvs, e \in ItemEntries}}

\* the list of the entries a and c with a list of the entry b nested after a
NestedListCases ==
    {[source |-> "\\begin{" \o outer \o "}\n\\item a\n"
                 \o "\\begin{" \o inner \o "}\n\\item b\n\\end{" \o inner \o "}\n"
                 \o "\\item c\n\\end{" \o outer \o "}\n",
      types |-> <<ItemType(outer), ItemType(inner), ItemType(outer)>>] :
        outer \in ListEnvs, inner \in ListEnvs}

ListCases == SimpleListCases \cup FollowingListCases \cup NestedListCases

\* documents of the other constructs
OtherLineTexts ==
    {"\\title{My \\textbf{T}}\n\\section{S}\n\\subsection{U}\nsome \\citep[p]{k, l} text\nmore\n\nnext",
     "\\includegraphics[width=10cm, h = 2]{i.png}\n\\includegraphics{j.png}\n\\item x\n\\end{itemize}",
     "\\begin{itemize}\\item First item\\item Second item\\end{itemize}",
     "\\begin{enumerate}\\item a\n\nb \\citeauthor{k}\\end{enumerate} t \\textit{i}"}

LineTexts == {c.source : c \in ListCases} \cup OtherLineTexts

InitLines ==
    /\ preamble = "" /\ NewInstance
    /\ text \in LineTexts
    /\ npieces = 0 /\ pc = "build"
    /\ NoInline /\ NoClean /\ NoExpand
    /\ schema = FALSE /\ NoConvert /\ NoInstances

\* the call parse_latex_to_json(text)
ParseLatexToJson ==
    /\ pc = "build"
    /\ content' = parse_latex_to_json(text)
    /\ pc' = "parsed_lines"
    /\ UNCHANGED <<instVars, inputVars, inlineVars, cleanVars, expandVars, envVars, schema, latex_content,
                   preamble_text, body_text, current_pos, origin, properties, graphicspath, diag,
                   validation, result, exc>>

NextLines == ParseLatexToJson

SpecLines == InitLines /\ [][NextLines]_vars

(***************************************************************************)
(* Converter instances side by side: each step is one operation of one     *)
(* instance, and the dictionaries are objects of one heap                  *)
(***************************************************************************)
NumInstances == 2

InstancePreambles ==
    {"",
     "\\newcommand{\\m}{A}\n\\definecolor{c}{HTML}{112233}",
     "\\newcommand{\\m}{\\textbf{C}}\n\\definecolor{blue}{rgb}{0,1,0}",
     "\\newcommand{\\m}{B}\n\\definecolor{c}{rgb}{1,0,0}\n\\definecolor{red}{HTML}{00ff00}"}

\* a text whose items depend on the macro table and on the colour table
InstanceText == "\\m \\textcolor{c}{x}\\textcolor{red}{y}"

\* line 54, LATEX_COLOR_TO_HEX.copy(): the heap with the copy, and the address
\* self.defined_colors refers to
NewColorTableShared(h) == [heap |-> h, address |-> PaletteAddress]

NewColorTable(h) == [heap |-> Append(h, h[PaletteAddress]), address |-> Len(h) + 1]

\* lines 47-57, __init__: a new empty macro table and a copy of the palette
Construct(i) ==
    /\ Len(instances) = i - 1
    /\ \E p \in InstancePreambles :
          With(NewColorTable(Append(heap, <<>>)), LAMBDA c :
              /\ heap' = c.heap
              /\ instances' = Append(instances,
                                [pc |-> "constructed", preamble |-> p, macros |-> Len(heap) + 1,
                                 defined_colors |-> c.address, output |-> <<>>]))
    /\ UNCHANGED <<instVars, inputVars, pc, inlineVars, cleanVars, expandVars, convertVars, procVars, callVars>>

\* lines 108-109: the first loop of _extract_definitions writes self.macros
DefineMacros(i) ==
    /\ i <= Len(instances)
    /\ instances[i].pc = "constructed"
    /\ heap' = [heap EXCEPT ![instances[i].macros] = ExtractNewcommands(instances[i].preamble, 1, @)]
    /\ instances' = [instances EXCEPT ![i].pc = "macros"]
    /\ UNCHANGED <<instVars, inputVars, pc, inlineVars, cleanVars, expandVars, convertVars, procVars, callVars>>

\* lines 110-120: the second loop of _extract_definitions writes self.defined_colors
DefineColors(i) ==
    /\ i <= Len(instances)
    /\ instances[i].pc = "macros"
    /\ heap' = [heap EXCEPT ![instances[i].defined_colors] =
                    ExtractColors(instances[i].preamble, 1,
                                  [colors |-> @, printed |-> <<>>, raised |-> ""]).colors]
    /\ instances' = [instances EXCEPT ![i].pc = "colors"]
    /\ UNCHANGED <<instVars, inputVars, pc, inlineVars, cleanVars, expandVars, convertVars, procVars, callVars>>

\* the instance parses a text with its tables
ParseText(i) ==
    /\ i <= Len(instances)
    /\ instances[i].pc = "colors"
    /\ instances' = [instances EXCEPT
                        ![i].output = _parse_inline_text_to_content_items(
                                          InstanceText, heap[instances[i].macros],
                                          heap[instances[i].defined_colors]),
                        ![i].pc = "parsed"]
    /\ UNCHANGED <<instVars, inputVars, pc, inlineVars, cleanVars, expandVars, convertVars, procVars, callVars, heap>>

InitInstances ==
    /\ preamble = "" /\ NewInstance
    /\ text = "" /\ npieces = 0 /\ pc = "build"
    /\ NoInline /\ NoClean /\ NoExpand
    /\ schema = FALSE /\ NoConvert /\ NoInstances

NextInstances ==
    \E i \in 1..NumInstances : Construct(i) \/ DefineMacros(i) \/ DefineColors(i) \/ ParseText(i)

SpecInstances == InitInstances /\ [][NextInstances]_vars

(***************************************************************************)
(* convert applied to documents of one construct                           *)
(***************************************************************************)
\* the texts made of at most n of the pieces, one after the other
RECURSIVE Concats(_, _)
Concats(pieces, n) ==
    IF n = 0 THEN {""}
    ELSE {""} \cup {p \o r : p \in pieces, r \in Concats(pieces, n - 1)}

\* the environment of the given name and content
Env(name, inner) == "\\begin{" \o name \o "}" \o inner \o "\\end{" \o name \o "}"

MaxItems == 3

ItemPieces == {"\\item a", "\\item \\textbf{b}\n", "\\item\\textit{c}", "\\item\n"}

ListTexts == {Env(name, inner) : name \in {"itemize", "enumerate"}, inner \in Concats(ItemPieces, MaxItems)}

MaxRows == 2

EmptyRowPieces == {" & \\\\", "\\hline ", " \\\\\n"}

RowPieces == EmptyRowPieces \cup {"a & \\textbf{b}\\\\"}

\* a table float around a tabular, with or without a caption, and a tabular alone
TableDocuments(rows) ==
    {Env("table", caption \o Env("tabular", "{ll}" \o r)) : caption \in {"", "\\caption{C}"}, r \in rows}
    \cup {Env("tabular", "{ll}" \o r) : r \in rows}

TableTexts == TableDocuments(Concats(RowPieces, MaxRows))

\* the tables of at least one row whose rows are all empty after the cells are split
EmptyTableTexts == TableDocuments(Concats(EmptyRowPieces, MaxRows) \ {""})

\* bodies that hold definitions
DefinitionTexts ==
    {"\\newcommand{\\m}{X}\\m",
     "\\definecolor{c}{HTML}{FF0000}\\textcolor{c}{t}",
     "\\newcommand{\\n}{N}\n\n\\section{\\n \\m}\\definecolor{red}{rgb}{0,0,1}"}

\* the contents of verbatim environments
VerbatimContents == {"a % b\nc", "\\m \\textbf{x}", " x\n", "50\\% off", "v"}

VerbatimTexts == {Env("verbatim", v) : v \in VerbatimContents}

\* a list of the items a and c whose first item holds a list of the item b
NestedList(outer, inner) == Env(outer, "\\item a " \o Env(inner, "\\item b") \o "\\item c")

NestedListTexts == {NestedList(outer, inner) : outer \in {"itemize", "enumerate"}, inner \in {"itemize", "enumerate"}}

\* rows that hold an escaped &
EscapedAmpRows == {"a \\& b & c\\\\", "x\\&y\\\\", "p & q\\\\"}

EscapedAmpTexts == TableDocuments(EscapedAmpRows)

BlockTexts ==
    ListTexts \cup TableTexts \cup DefinitionTexts \cup VerbatimTexts \cup NestedListTexts
    \cup EscapedAmpTexts

BlockPreambles ==
    {"", "\\title{A \\textbf{B} \\m}\n\\newcommand{\\m}{M}\n\\definecolor{c}{HTML}{112233}\n"}

InitBlocks ==
    /\ preamble \in BlockPreambles
    /\ text \in BlockTexts
    /\ NewInstance
    /\ npieces = 0 /\ pc = "build"
    /\ NoInline /\ NoClean /\ NoExpand
    /\ schema \in BOOLEAN
    /\ NoConvert /\ NoInstances

NextBlocks ==
    \/ ReadFile
    \/ ExtractDefinitions
    \/ ParsePreamble
    \/ StartBody
    \/ ScanSection
    \/ ScanEnvironment
    \/ ScanBreak
    \/ ScanExit
    \/ Normalize
    \/ Validate

SpecBlocks == InitBlocks /\ [][NextBlocks]_vars

(***************************************************************************)
(* _extract_definitions applied to bounded preambles of colour definitions *)
(***************************************************************************)
MaxColorDefs == 3

\* the malformed definitions, each of a name of its own
MalformedColorDefs ==
    {[name |-> "a", def |-> "\\definecolor{a}{HTML}{12345}\n"],
     [name |-> "b", def |-> "\\definecolor{b}{rgb}{1,x,0}\n"],
     [name |-> "d", def |-> "\\definecolor{d}{rgb}{1,0}\n"]}

WellFormedColorDefs ==
    {[name |-> "c", def |-> "\\definecolor{c}{HTML}{00ff00}\n"],
     [name |-> "e", def |-> "\\definecolor{e}{rgb}{0,0.5,1}\n"]}

\* rgb definitions of three numbers, one of them outside the range from 0 to 1
OutOfRangeColorDefs ==
    {[name |-> "z", def |-> "\\definecolor{z}{rgb}{2,0,0}\n"],
     [name |-> "n", def |-> "\\definecolor{n}{rgb}{0,-1,0}\n"]}

ColorPieces == {c.def : c \in MalformedColorDefs \cup WellFormedColorDefs \cup OutOfRangeColorDefs}

InitColors ==
    /\ preamble = "" /\ NewInstance
    /\ text = "" /\ npieces = 0 /\ pc = "build"
    /\ NoInline /\ NoClean /\ NoExpand
    /\ schema = FALSE /\ NoConvert /\ NoInstances

ColorsAddPiece ==
    /\ AddPiece(ColorPieces, MaxColorDefs)
    /\ UNCHANGED <<instVars, inlineVars, cleanVars, expandVars, convertVars, envVars>>

\* the call self._extract_definitions(text)
ExtractColorDefs ==
    /\ pc = "build"
    /\ With(_extract_definitions(text, macros, defined_colors), LAMBDA d :
           /\ macros' = d.macros
           /\ defined_colors' = d.colors
           /\ diag' = diag \o d.printed
           /\ exc' = d.raised
           /\ pc' = IF d.raised # "" THEN "raised" ELSE "defined")
    /\ UNCHANGED <<inputVars, inlineVars, cleanVars, expandVars, envVars, schema, latex_content,
                   preamble_text, body_text, current_pos, content, origin, properties, graphicspath,
                   validation, result>>

NextColors == ColorsAddPiece \/ ExtractColorDefs

SpecColors == InitColors /\ [][NextColors]_vars

(***************************************************************************)
(* convert applied to documents with ignore regions                        *)
(***************************************************************************)
\* bodies: the paragraphs a and b around a region that holds a construct, with
\* the marks on lines of their own or on the line of the construct, and a body
\* without a region
IgnoreTexts ==
    {"a\n%TC:ignore\n\\section{S}\n%TC:endignore\nb",
     "a\n%TC:ignore\n\\begin{itemize}\\item i\\end{itemize}\n%TC:endignore\nb",
     "a %TC:ignore \\section{S} %TC:endignore\nb",
     "a\n%TC:ignore \\section{S}\n\\section{S}\n%TC:endignore\nb",
     "\\section{K}\\begin{verbatim}v\\end{verbatim}"}

\* preambles: a region that holds a title and a definition, a region on one
\* line after a title, and a preamble without a region
IgnorePreambles ==
    {"%TC:ignore\n\\title{T}\n\\newcommand{\\m}{M}\n\\definecolor{c}{HTML}{112233}\n%TC:endignore\n",
     "\\title{K}\n%TC:ignore \\author{A} %TC:endignore\n",
     "\\title{K}\n"}

InitIgnore ==
    /\ preamble \in IgnorePreambles
    /\ text \in IgnoreTexts
    /\ NewInstance
    /\ npieces = 0 /\ pc = "build"
    /\ NoInline /\ NoClean /\ NoExpand
    /\ schema \in BOOLEAN
    /\ NoConvert /\ NoInstances

SpecIgnore == InitIgnore /\ [][NextBlocks]_vars

(***************************************************************************)
(* The inline parser applied to commands it does not recognize             *)
(***************************************************************************)
MaxUnknownPieces == 3

\* plain text, and commands that no alternative of the pattern names, each
\* followed by a brace group
UnknownCommands == {"\\foo{arg}", "\\f{a}", "\\foo {arg}", "\\foo{a{r}g}"}

UnknownPieces == {"x "} \cup UnknownCommands

InitUnknown ==
    /\ preamble = "" /\ NewInstance
    /\ text = "" /\ npieces = 0 /\ pc = "build"
    /\ NoInline /\ NoClean /\ NoExpand
    /\ schema = FALSE /\ NoConvert /\ NoInstances

UnknownAddPiece ==
    /\ AddPiece(UnknownPieces, MaxUnknownPieces)
    /\ UNCHANGED <<instVars, inlineVars, cleanVars, expandVars, convertVars, envVars>>

NextUnknown == UnknownAddPiece \/ InlineParse

SpecUnknown == InitUnknown /\ [][NextUnknown]_vars

(***************************************************************************)
(* convert called again on the same instance                               *)
(***************************************************************************)
MaxCalls == 2

MaxAgainPieces == 2

AgainPieces ==
    {"\\section{S}",
     "\\begin{itemize}\\item i\\end{itemize}",
     "\\begin{figure}\\includegraphics{ok.png}\\end{figure}",
     "p \\m",
     "\n\n"}

InitAgain ==
    /\ preamble \in ConvertPreambles
    /\ text \in Concats(AgainPieces, MaxAgainPieces)
    /\ NewInstance
    /\ npieces = 0 /\ pc = "build"
    /\ NoInline /\ NoClean /\ NoExpand
    /\ schema \in BOOLEAN
    /\ NoConvert /\ NoInstances

\* a call of convert that starts from a new document
ConvertAgainFresh ==
    /\ pc = "returned"
    /\ result # None
    /\ Len(returned) < MaxCalls
    /\ latex_content' = FileContent
    /\ content' = <<>> /\ origin' = <<>>
    /\ pc' = "definitions"
    /\ UNCHANGED <<instVars, inputVars, inlineVars, cleanVars, expandVars, envVars, schema, preamble_text,
                   body_text, current_pos, properties, graphicspath, diag, validation, result, exc>>

\* lines 552-555 on a later call of convert: the unchanged file is read again,
\* and the document, the tables and the graphics path of the instance are as
\* the call before left them
ConvertAgain ==
    /\ pc = "returned"
    /\ result # None
    /\ Len(returned) < MaxCalls
    /\ latex_content' = FileContent
    /\ content' = content /\ origin' = origin
    /\ pc' = "definitions"
    /\ UNCHANGED <<instVars, inputVars, inlineVars, cleanVars, expandVars, envVars, schema, preamble_text,
                   body_text, current_pos, properties, graphicspath, diag, validation, result, exc>>

NextAgain == NextBlocks \/ ConvertAgain

SpecAgain == InitAgain /\ [][NextAgain]_vars
(***************************************************************************)
(* convert applied to lists of one item                                    *)
(***************************************************************************)
MaxItemRuns == 3

\* the pieces of the content of an item: a plain text, two formatted texts, a
\* citation and a tie
ItemRunPieces == {"a ", "\\textbf{b}", "\\textit{c}", "\\cite{k}", "~"}

ItemContents == Concats(ItemRunPieces, MaxItemRuns)

\* a list of the one item, with the item content it was made of; the lists of
\* one piece stand between a heading and a paragraph as well
ItemCases ==
    {[text |-> Env(name, "\\item " \o c), source |-> c] :
        name \in {"itemize", "enumerate"}, c \in ItemContents}
    \cup {[text |-> "\\section{S}" \o Env(name, "\\item " \o c) \o "t", source |-> c] :
        name \in {"itemize", "enumerate"}, c \in ItemRunPieces}

ItemTexts == {t.text : t \in ItemCases}

InitItems ==
    /\ preamble = ""
    /\ text \in ItemTexts
    /\ NewInstance
    /\ npieces = 0 /\ pc = "build"
    /\ NoInline /\ NoClean /\ NoExpand
    /\ schema \in BOOLEAN
    /\ NoConvert /\ NoInstances

SpecItems == InitItems /\ [][NextBlocks]_vars

(***************************************************************************)
(* Properties of the inline parser, the cleaner and the expander           *)
(***************************************************************************)
\* item.get("formatting"), an absent formatting counting as the empty one
FormattingOf(item) == IF "formatting" \in DOMAIN item THEN item.formatting ELSE EmptyFormatting

\* two consecutive items are text runs of equal formatting
HasAdjacentEqualText(items) ==
    \E i \in 1..(Len(items) - 1) :
        /\ items[i].type = "text"
        /\ items[i + 1].type = "text"
        /\ FormattingOf(items[i]) = FormattingOf(items[i + 1])

\* the runs generate_runs hands to the merge pass for the current text
RawItems == generate_runs(_expand_macros(text, 0, macros), EmptyFormatting, defined_colors)

\* C1: the run list the inline parser returns never holds two consecutive
\* text runs of equal formatting (an absent formatting is the empty one).
C1_MergeInvariant == pc = "parsed" => ~HasAdjacentEqualText(runs)

\* the merge pass met two consecutive text runs of equal formatting
C1_Witness == pc = "parsed" /\ HasAdjacentEqualText(RawItems) /\ runs # <<>>

\* C2: nested formatting commands accumulate: \textbf{bold \textit{both}} gives
\* exactly the runs 'bold ' {bold} and 'both' {bold, italic}.
C2_NestedAccumulate ==
    (pc = "parsed" /\ text = "\\textbf{bold \\textit{both}}") =>
        runs = << [type |-> "text", text |-> "bold ", formatting |-> [bold |-> TRUE]],
                  [type |-> "text", text |-> "both", formatting |-> [bold |-> TRUE, italic |-> TRUE]] >>

\* the keys a citation run carries, as a list, and its style tag
CitationKeys(run) == IF "keys" \in DOMAIN run THEN run.keys ELSE <<run.field_data.key>>
CitationStyle(run) == IF "style" \in DOMAIN run THEN run.style ELSE run.field_data.latex_command

\* C6: a citation command yields one citation run with the list of the
\* individual keys and the style tag of the command: \citep{a,b} gives
\* keys [a, b] and style citep.
C6_CitationKeysAndStyle ==
    (pc = "parsed" /\ text = "\\citep{a,b}") =>
        /\ Len(runs) = 1
        /\ runs[1].type = "citation"
        /\ CitationKeys(runs[1]) = <<"a", "b">>
        /\ CitationStyle(runs[1]) = "citep"

\* the escape sequences of the substitution table of the cleaner
CleanerEscapes == {"\\%", "\\&", "\\#", "\\$", "\\_", "\\{", "\\}"}

\* C8: the output of the cleaner contains none of the escape sequences of
\* its substitution table.
C8_NoEscapeSurvives ==
    pc = "cleaned" => \A esc \in CleanerEscapes : find(cleaned, esc, 1) = 0

\* C3: macro expansion makes at most MAX_DEPTH + 1 substitution passes for
\* every macro table and text, and when the depth bound stops it the text
\* expanded so far is returned.
C3_ExpansionBounded ==
    /\ passes <= MAX_DEPTH + 1
    /\ depth <= MAX_DEPTH + 1
    /\ (pc = "expanded" /\ DepthExceeded(depth)) => (passes = MAX_DEPTH + 1 /\ expanded # text)

\* the expansion of a self-growing macro was stopped by the depth bound
C3_Witness == pc = "expanded" /\ DepthExceeded(depth) /\ passes = MAX_DEPTH + 1

\* C7: a macro declared with 2 arguments is expanded on an invocation with 2
\* brace groups, each #i replaced by the i-th group.
C7_ArgumentMacro ==
    (pc = "expanded" /\ preamble = "\\newcommand{\\mycmd}[2]{Arg1: #1, Arg2: #2}"
        /\ text = "\\mycmd{Hello}{World}") =>
        expanded = "Arg1: Hello, Arg2: World"


(***************************************************************************)
(* Properties of convert and of the block scanner                          *)
(***************************************************************************)
InSeq(x, seq) == \E k \in 1..Len(seq) : seq[k] = x

\* C4: body parsing returns normally for every body text: no construct the
\* block scanner recognises (a section, an environment, \newpage or \clearpage,
\* a bibliography command, a malformed table or figure) makes _parse_body raise.
C4_BodyParsingReturns == ~(pc = "raised" /\ current_pos >= 1)

\* the blocks are in the order of the source positions they come from: a block
\* of a construct comes after every block of an earlier position
OrderedOrigins ==
    /\ Len(origin) = Len(content)
    /\ \A k, l \in 1..Len(origin) :
          k < l => /\ origin[k].pos <= origin[l].pos
                   /\ (origin[l].kind = "construct" => origin[k].pos < origin[l].pos)

\* a step keeps every block at its index, up to the content the final pass adds
KeptBlocks ==
    \A k \in 1..Len(content) :
        /\ k <= Len(content')
        /\ NormalizeBlock(content'[k]) = NormalizeBlock(content[k])
        /\ origin'[k] = origin[k]

\* C5: blocks are in the content list in the order of their source constructs,
\* the paragraphs of the text before a construct precede the block of the
\* construct, and no later step (the final pass included) removes or moves a block.
C5_DocumentOrder == []OrderedOrigins /\ [][KeptBlocks]_vars

\* a title, then a paragraph, then the block of the construct that follows it
C5_Witness ==
    /\ pc = "returned"
    /\ Len(content) >= 3
    /\ origin[1].kind = "title"
    /\ origin[2].kind = "paragraph"
    /\ origin[3].kind = "construct"

\* the \includegraphics of the figure the scan is about to handle
FigureImage ==
    SearchOptBrace(BlockSearch(body_text, current_pos).content, 1, "includegraphics", "includegraphics")

\* the scan is about to handle a figure whose image is on no search path
UnresolvedFigure ==
    /\ pc = "scan"
    /\ current_pos <= Len(body_text)
    /\ With(BlockSearch(body_text, current_pos), LAMBDA match :
           /\ match.kind = "env"
           /\ match.name = "figure"
           /\ With(SearchOptBrace(match.content, 1, "includegraphics", "includegraphics"), LAMBDA img_match :
                 /\ img_match.kind # "none"
                 /\ ~(isabs(img_match.content) /\ img_match.content \in ExistingFiles)
                 /\ FirstExisting(graphicspath, img_match.content, ExistingFiles) = None))

ImageBlock(path) == [type |-> "normal", content |-> <<[type |-> "image", path |-> path]>>]

C10_ValidationNonFatal ==
    (pc = "returned" /\ validation # "not_run") =>
        /\ result = Some(JsonOutput)
        /\ exc = ""
        /\ (validation \in {"invalid", "error"} => InSeq(FailedValidationMessage, diag))

\* the validation failed and convert returned the document with its blocks
C10_Witness ==
    /\ pc = "returned"
    /\ validation = "invalid"
    /\ content # <<>>
    /\ result = Some(JsonOutput)

(***************************************************************************)
(* C11: an unreadable input file                                           *)
(***************************************************************************)
\* the source file could not be read: it does not exist, or open or read failed
Unreadable == InSeq("Error: File not found", diag) \/ exc = "OSError"

\* C11: when the input file cannot be read, convert returns no document, no
\* output file is written and the command-line run ends with a non-zero exit
\* code
C11_UnreadableInputExit ==
    (pc = "exited" /\ Unreadable) =>
        /\ result = None
        /\ output_file = None
        /\ exit_code # 0

(***************************************************************************)
(* C12: instances share no mutable state                                   *)
(***************************************************************************)
\* the macro table and the colour table of instance j
TablesOf(h, j) == <<h[instances[j].macros], h[instances[j].defined_colors]>>

\* a step of instance i leaves the tables and the output of every other instance as they are
OthersKept ==
    \A i, j \in 1..Len(instances) :
        (i # j /\ instances'[i] # instances[i]) =>
            /\ instances'[j] = instances[j]
            /\ TablesOf(heap', j) = TablesOf(heap, j)

\* the items instance j gives are those of its own preamble alone
OwnOutput ==
    \A j \in 1..Len(instances) :
        instances[j].pc = "parsed" =>
            instances[j].output =
                _parse_inline_text_to_content_items(
                    InstanceText,
                    ExtractNewcommands(instances[j].preamble, 1, <<>>),
                    ExtractColors(instances[j].preamble, 1,
                                  [colors |-> LATEX_COLOR_TO_HEX, printed |-> <<>>, raised |-> ""]).colors)

\* C12: under every interleaving of the operations of two instances, the
\* definitions one instance makes change neither the macro table, the colour
\* table or the output of the other instance, nor the built-in palette
C12_InstancesIsolated ==
    /\ [](heap[PaletteAddress] = LATEX_COLOR_TO_HEX /\ OwnOutput)
    /\ [][OthersKept]_vars

\* both instances made different definitions of the same names, one of them of a
\* built-in colour, and both parsed the text
C12_Witness ==
    /\ Len(instances) = NumInstances
    /\ \A j \in 1..NumInstances : instances[j].pc = "parsed" /\ instances[j].preamble # ""
    /\ instances[1].preamble # instances[2].preamble
    /\ instances[1].output # instances[2].output
    /\ TablesOf(heap, 1)[2].red # TablesOf(heap, 2)[2].red

(***************************************************************************)
(* C13: expansion is idempotent at a fixed point                           *)
(***************************************************************************)
\* C13: for every macro table and every text whose expansion ends at a fixed
\* point, before the depth bound, expanding the result again changes nothing:
\* expand(expand(x)) = expand(x)
C13_ExpandIdempotent ==
    (pc = "expanded" /\ ~DepthExceeded(depth)) =>
        /\ expanded = _expand_macros(text, 0, macros)
        /\ _expand_macros(expanded, 0, macros) = expanded

\* an expansion of two substitution passes ended at a fixed point
C13_Witness ==
    /\ pc = "expanded" /\ ~DepthExceeded(depth)
    /\ passes >= 3
    /\ expanded # text
    /\ expanded = _expand_macros(expanded, 0, macros)

(***************************************************************************)
(* C14: the items of a list                                                *)
(***************************************************************************)
\* the number of occurrences of lit in s from position from on
RECURSIVE CountOf(_, _, _)
CountOf(s, lit, from) ==
    With(find(s, lit, from), LAMBDA i :
        IF i = 0 THEN 0 ELSE 1 + CountOf(s, lit, i + Len(lit)))

\* the texts of the items from the k-th on are found in s one after the other from position from on
RECURSIVE ItemsInOrder(_, _, _, _)
ItemsInOrder(s, from, items, k) ==
    IF k > Len(items) THEN TRUE
    ELSE With(find(s, items[k].text, from), LAMBDA i :
            i # 0 /\ ItemsInOrder(s, i + Len(items[k].text), items, k + 1))

\* the document is one list environment
ListDocument == preamble = "" /\ (startswith(text, 1, "\\begin{itemize}") \/ startswith(text, 1, "\\begin{enumerate}"))

\* C14: an itemize environment with k >= 1 \item entries and no nesting gives exactly
\* one list block with exactly k items, in source order, of the bullet list
\* type; an enumerate environment gives the number list type
C14_ListItems ==
    (pc = "returned" /\ ListDocument /\ CountOf(text, "\\item", 1) >= 1) =>
        /\ Len(content) = 1
        /\ content[1].type = "list"
        /\ content[1].list_type = (IF startswith(text, 1, "\\begin{itemize}") THEN "bullet" ELSE "number")
        /\ Len(content[1].items) = CountOf(text, "\\item", 1)
        /\ ItemsInOrder(text, 1, content[1].items, 1)

(***************************************************************************)
(* C15: a table whose rows are all empty                                   *)
(***************************************************************************)
\* C15: a table environment whose rows are all empty after cell splitting
\* gives a table block with zero data rows: convert does not raise and the
\* document holds the block
C15_EmptyTableBlock ==
    (preamble = "" /\ text \in EmptyTableTexts) =>
        /\ pc # "raised"
        /\ pc = "returned" =>
              /\ Len(content) = 1
              /\ content[1].type = "table"
              /\ content[1].data = <<>>

(***************************************************************************)
(* C16: page breaks                                                        *)
(***************************************************************************)
\* the positions of the page_break blocks of the content
PageBreakBlocks == {k \in 1..Len(content) : content[k].type = "page_break"}

\* C16: each \newpage in the body gives exactly one page_break block that records
\* the command: convert does not raise on it, and the returned document holds as
\* many page_break blocks of command "newpage" as the body holds \newpage
C16_PageBreakBlocks ==
    (find(text, "\\newpage", 1) # 0 /\ find(text, "\\bibliography", 1) = 0) =>
        /\ exc # "IndexError"
        /\ (pc = "returned" /\ result # None) =>
              /\ Cardinality(PageBreakBlocks) = CountOf(text, "\\newpage", 1)
              /\ \A k \in PageBreakBlocks : content[k].command = "newpage"

(***************************************************************************)
(* C17: body parsing leaves the tables alone                               *)
(***************************************************************************)
\* the stages of convert from the call of _parse_body on
BodyStages == {"body", "scan", "normalize", "validate"}

\* _parse_body was called
BodyCalled == pc \in BodyStages \/ (pc = "returned" /\ result # None)

\* the tables the preamble alone defines
PreambleTables == _extract_definitions(CleanSource(preamble), <<>>, LATEX_COLOR_TO_HEX)

\* C17: the preamble is processed before the body, and body parsing never
\* changes the macro table or the colour table: from the call of _parse_body
\* on both tables are those of the preamble, and no step of the body changes
\* them, even when the body holds \newcommand or \definecolor
C17_TablesReadOnly ==
    /\ [](BodyCalled =>
            (macros = PreambleTables.macros /\ defined_colors = PreambleTables.colors))
    /\ [][BodyCalled => (macros' = macros /\ defined_colors' = defined_colors)]_vars

\* convert returned a document whose preamble and body both hold definitions of
\* the same macro and colour
C17_Witness ==
    /\ pc = "returned" /\ result # None
    /\ preamble # "" /\ macros # <<>>
    /\ find(text, "\\newcommand{\\m}", 1) # 0
    /\ content # <<>>

(***************************************************************************)
(* C18: the title block                                                    *)
(***************************************************************************)
\* the \title of the preamble after macro expansion
TitleMatch == SearchBraceCmd(_expand_macros(preamble_text, 0, macros), "title")

\* C18: when the preamble has a \title, the title block is the first block of
\* the document, its content is the inline-parsed form of the title, and the
\* stripped plain form is the title of the properties
C18_TitleBlock ==
    (pc = "returned" /\ result # None /\ TitleMatch.kind # "none") =>
        /\ content # <<>>
        /\ content[1].type = "title_paragraph"
        /\ \A k \in 2..Len(content) : content[k].type # "title_paragraph"
        /\ content[1].content =
              _parse_inline_text_to_content_items(strip(TitleMatch.content), macros, defined_colors)
        /\ properties.title = _strip_latex_commands(strip(TitleMatch.content))

(***************************************************************************)
(* C19: malformed colour definitions                                       *)
(***************************************************************************)
\* a message of the diagnostics names the colour
Reported(name) == \E k \in 1..Len(diag) : find(diag[k], "'" \o name \o "'", 1) # 0

\* C19: a \definecolor with a malformed spec (an HTML spec that is not six hex
\* digits, an rgb spec that is not three numbers) leaves the colour table
\* without that name and reports a diagnostic, and the other definitions of
\* the preamble are extracted
C19_MalformedColorDropped ==
    pc # "build" =>
        /\ pc = "defined"
        /\ \A c \in MalformedColorDefs :
              find(text, c.def, 1) # 0 => (c.name \notin DOMAIN defined_colors /\ Reported(c.name))
        /\ \A c \in WellFormedColorDefs :
              find(text, c.def, 1) # 0 => c.name \in DOMAIN defined_colors

(***************************************************************************)
(* C20: verbatim environments                                              *)
(***************************************************************************)
\* C20: the content of a verbatim environment is emitted as exactly one text
\* run of the Courier New font whose text is the content of the environment
\* character for character, a % and the text after it, macro invocations and
\* formatting commands included
C20_VerbatimPreserved ==
    \A v \in VerbatimContents :
        (pc = "returned" /\ result # None /\ text = Env("verbatim", v)) =>
            /\ content # <<>>
            /\ Cardinality({k \in 1..Len(content) : content[k].type = "normal"}) = 1
            /\ content[Len(content)].type = "normal"
            /\ content[Len(content)].content =
                  <<[type |-> "text", text |-> v, formatting |-> [font_name |-> "Courier New"]]>>

(***************************************************************************)
(* C21: the number of passes of an expansion that reaches no fixed point   *)
(***************************************************************************)
\* s repeated n times
RECURSIVE Times(_, _)
Times(s, n) == IF n = 0 THEN "" ELSE s \o Times(s, n - 1)

\* the expansion of the text was stopped by the depth bound
StoppedByBound == pc = "expanded" /\ DepthExceeded(depth)

\* C21: an expansion that reaches no fixed point applies exactly MAX_DEPTH
\* substitution passes: \prepend with the template X\prepend gives MAX_DEPTH
\* times X followed by one \prepend
C21_PassesEqualBound ==
    StoppedByBound =>
        /\ passes = MAX_DEPTH
        /\ (preamble = "\\newcommand{\\prepend}{X\\prepend}" /\ text = "\\prepend") =>
              expanded = Times("X", MAX_DEPTH) \o "\\prepend"

(***************************************************************************)
(* C22: nested lists                                                       *)
(***************************************************************************)
\* the fields a list item has in every case
ItemFields == {"text", "formatting"}

\* C22: a list environment nested inside an item becomes a child list of that
\* item: the parent list, of level 0, has an item that carries more than its
\* text and formatting, and the items of the nested environment are not items
\* of the parent list
C22_NestedList ==
    (pc = "returned" /\ result # None /\ text \in NestedListTexts) =>
        \E k \in 1..Len(content) :
            /\ content[k].type = "list"
            /\ content[k].level = 0
            /\ \A j \in 1..Len(content[k].items) : find(content[k].items[j].text, "b", 1) = 0
            /\ \E j \in 1..Len(content[k].items) : DOMAIN content[k].items[j] \ ItemFields # {}

(***************************************************************************)
(* C23: the cells of a table row                                           *)
(***************************************************************************)
\* the number of & of s that no backslash precedes
UnescapedAmps(s) == Cardinality({k \in 1..Len(s) : Ch(s, k) = "&" /\ Ch(s, k - 1) # "\\"})

\* the table blocks of the content
TableBlocks == {k \in 1..Len(content) : content[k].type = "table"}

\* C23: a table row is split into cells at the unescaped & only: the row has
\* one cell more than it has unescaped &, and an escaped \& stays in its
\* cell as a literal &
C23_CellsAtUnescapedAmp ==
    \A r \in EscapedAmpRows :
        (pc = "returned" /\ result # None /\ text \in TableDocuments({r})) =>
            \E k \in TableBlocks :
                /\ Len(content[k].data) = 1
                /\ Len(content[k].data[1].cells) = UnescapedAmps(r) + 1
                /\ r = "a \\& b & c\\\\" =>
                      content[k].data[1].cells[1] = <<[type |-> "text", text |-> "a & b"]>>

(***************************************************************************)
(* C24: ignore regions                                                     *)
(***************************************************************************)
\* the text holds a region marked by %TC:ignore and %TC:endignore
HasIgnoreRegion(s) == find(s, "%TC:ignore", 1) # 0 /\ find(s, "%TC:endignore", 1) # 0

\* C24: the text between %TC:ignore and %TC:endignore is removed before the
\* scan: a construct in a region of the body gives no block, and a region of
\* the preamble gives no macro, no colour, no title and no author
C24_IgnoredRemoved ==
    (pc = "returned" /\ result # None) =>
        /\ HasIgnoreRegion(text) =>
              \A k \in 1..Len(content) : content[k].type \in {"normal", "title_paragraph"}
        /\ HasIgnoreRegion(preamble) =>
              /\ macros = <<>>
              /\ defined_colors = LATEX_COLOR_TO_HEX
              /\ properties.title \in {"Untitled Document", "K"}
              /\ properties.author = "Unknown Author"

(***************************************************************************)
(* C25: unrecognized commands followed by a brace group                    *)
(***************************************************************************)
\* the characters of s
CharsOf(s) == {Ch(s, k) : k \in 1..Len(s)}

\* the text holds a command that is not recognized, with its brace group
HasUnknownCommand(s) == \E c \in UnknownCommands : find(s, c, 1) # 0

\* C25: an unrecognized command that a brace group follows is dropped with
\* the content of the group: in a text made of the plain piece "x " and such
\* commands, the emitted runs hold no character of a command name or of an
\* argument, only characters of the plain pieces
C25_UnknownCommandDropped ==
    (pc = "parsed" /\ HasUnknownCommand(text)) =>
        \A k \in 1..Len(runs) :
            /\ runs[k].type = "text"
            /\ CharsOf(runs[k].text) \subseteq {"x", " "}

(***************************************************************************)
(* C26: the values of the colour table                                     *)
(***************************************************************************)
\* a # followed by exactly six hexadecimal digits
IsHexColor(v) == Len(v) = 7 /\ Ch(v, 1) = "#" /\ IsHex6(Tail_from(v, 2))

\* C26: after any sequence of colour definitions, of the HTML or the rgb
\* model, valid or not, every value of the colour table is a # followed by
\* exactly six hexadecimal digits
C26_ColorValuesWellFormed ==
    \A name \in DOMAIN defined_colors : IsHexColor(defined_colors[name])

(***************************************************************************)
(* C27: the list items of the line-based parser                            *)
(***************************************************************************)
\* the types of the blocks of the content, in order
BlockTypes == [k \in 1..Len(content) |-> content[k].type]

\* C27: parse_latex_to_json emits every \item with a text inside an itemize
\* environment as one list_item_bullet block and every one inside an
\* enumerate environment as one list_item_ordered block, in source order,
\* also when a list is nested in another or follows another
C27_LineListItems ==
    \A c \in ListCases :
        (pc = "parsed_lines" /\ text = c.source) => BlockTypes = c.types

(***************************************************************************)
(* C28: convert called twice                                               *)
(***************************************************************************)
\* C28: convert does not reset the document of the instance: the content a
\* later call returns is the content the call before returned followed by the
\* blocks of the first call again, the title block included, and every call
\* returns the same object
C28_ConvertAccumulates ==
    \A k \in 2..Len(returned) :
        /\ returned[k].content = returned[k - 1].content \o returned[1].content
        /\ returned[k].object = returned[1].object

\* a second call returned a document that has a title block and a body block twice
C28_Witness ==
    /\ Len(returned) = 2
    /\ pc = "returned"
    /\ Len(returned[1].content) >= 2
    /\ returned[1].content[1].type = "title_paragraph"
    /\ content = returned[1].content \o returned[1].content
    /\ result = Some(JsonOutput)

(***************************************************************************)
(* C29: the scan loop of _parse_body terminates                            *)
(***************************************************************************)
\* a step taken inside the scan loop ends the loop with no match left, or
\* moves the position strictly forward, to the end of a match inside the body
ScanProgress ==
    pc = "scan" =>
        \/ pc' = "normalize" /\ current_pos' = current_pos
        \/ /\ pc' \in {"scan", "raised"}
           /\ current_pos' > current_pos
           /\ current_pos' <= Len(body_text) + 1

\* the match found from a position inside the body is a known construct that
\* ends after the position, at most one past the end of the body
ScanAhead ==
    current_pos <= Len(body_text) =>
        With(Iteration.match, LAMBDA match :
            match.kind # "none" =>
                /\ match.end > current_pos
                /\ match.end <= Len(body_text) + 1
                /\ match.start >= current_pos)

\* C29: the scan loop terminates on every body text: each iteration ends the
\* loop because no construct is found, or moves the scan position strictly
\* forward to the end of a non-empty match, and the loop is left in the end
C29_ScanTerminates ==
    /\ [](pc = "scan" => ScanCanStep /\ ScanAhead)
    /\ [][ScanProgress]_vars
    /\ (pc = "scan" ~> pc # "scan")

\* the loop was left after two iterations that moved the position forward
C29_Witness ==
    /\ pc = "normalize"
    /\ Len(origin) >= 2
    /\ \E j, k \in 1..Len(origin) :
          /\ origin[j].kind = "construct" /\ origin[k].kind = "construct"
          /\ origin[j].pos < origin[k].pos
    /\ current_pos > Len(body_text)

(***************************************************************************)
(* C30: the formatting of a list item                                      *)
(***************************************************************************)
\* the content the item of the document was made of, as the item pattern captures it
ItemSource == strip((CHOOSE t \in ItemCases : t.text = text).source)

\* the inline parse of the item
ItemRuns == _parse_inline_text_to_content_items(ItemSource, macros, defined_colors)

\* the items of the lists of the document
RECURSIVE ItemsOf(_)
ItemsOf(blocks) ==
    IF blocks = <<>> THEN <<>>
    ELSE (IF Head(blocks).type = "list" THEN Head(blocks).items ELSE <<>>) \o ItemsOf(Tail(blocks))

\* the parse is one text run that has a formatting
SingleFormattedRun(parsed) ==
    Len(parsed) = 1 /\ parsed[1].type = "text" /\ "formatting" \in DOMAIN parsed[1]

\* the texts of the runs, a citation with its display text, one after the other
RECURSIVE RunsText(_)
RunsText(parsed) ==
    IF parsed = <<>> THEN ""
    ELSE (IF Head(parsed).type = "citation" THEN Head(parsed).display_text ELSE Head(parsed).text)
         \o RunsText(Tail(parsed))

\* the parse holds a citation, or two text runs of different formatting
MixedRuns(parsed) ==
    \/ \E j \in 1..Len(parsed) : parsed[j].type = "citation"
    \/ \E i, j \in 1..Len(parsed) :
          /\ parsed[i].type = "text" /\ parsed[j].type = "text"
          /\ FormattingOpt(parsed[i]) # FormattingOpt(parsed[j])

\* the item has a formatting exactly when its parse is one formatted text run,
\* whose formatting it then is; an item of mixed runs has the field text alone,
\* and its text is the given function of the text of the runs
ItemFormatting(item, parsed, Stored(_)) ==
    /\ "formatting" \in DOMAIN item <=> SingleFormattedRun(parsed)
    /\ SingleFormattedRun(parsed) => item.formatting = parsed[1].formatting
    /\ MixedRuns(parsed) => DOMAIN item = {"text"} /\ item.text = Stored(RunsText(parsed))

====
